---- MODULE Spec2Model ----
(***************************************************************************)
(* Model of the torn-war-bot repository:                                   *)
(*   - app.py        Flask panel with a background poller thread           *)
(*   - torn_api.py   ranked-war normalisation helpers                      *)
(*   - worker_bot.py / main.py   Discord worker with the refresh loop      *)
(*                                                                         *)
(* Three specifications share the module:                                  *)
(*   Spec        the web process of app.py (poller threads, HTTP handlers) *)
(*   SpecWorker  the refresh loop of worker_bot.py and its alert step      *)
(*   SpecFn      the pure helpers, applied to inputs from bounded sets     *)
(*                                                                         *)
(* Python values are tagged records (PyNone, PyStr, PyInt, PyDict, ...);   *)
(* a text that the code searches or splits is a sequence of one-character  *)
(* strings (PyText).                                                       *)
(***************************************************************************)
EXTENDS Integers, Sequences, FiniteSets, TLC

\* ------------------------------------------------------------------------
\* Bounds of the model
\* ------------------------------------------------------------------------
MaxMinutes == 45
MaxN == 3
MaxMembers == 6
MaxTime == 6
MaxGap == 2
MaxCycles == 2
MaxPushes == 2
MaxDeals == 2

\* ------------------------------------------------------------------------
\* Python str operations on character sequences
\* ------------------------------------------------------------------------
S_just_now == <<"j","u","s","t"," ","n","o","w">>
S_now == <<"n","o","w">>
S_minute == <<"m","i","n","u","t","e">>
S_hour == <<"h","o","u","r">>
S_day == <<"d","a","y">>
S_second == <<"s","e","c","o","n","d">>
S_week == <<"w","e","e","k">>
S_month == <<"m","o","n","t","h">>
S_year == <<"y","e","a","r">>
S_ago == <<" ","a","g","o">>
S_unknown == <<"U","n","k","n","o","w","n">>
S_a_few == <<"a"," ","f","e","w"," ">>
S_Just_now == <<"J","u","s","t"," ","n","o","w">>

DigitChars == <<"0","1","2","3","4","5","6","7","8","9">>

DigitValue(c) == (CHOOSE i \in 1..10 : DigitChars[i] = c) - 1

IsDigit(c) == \E i \in 1..10 : DigitChars[i] = c

\* str(n) for n >= 0
RECURSIVE Digits(_)
Digits(n) == IF n < 10 THEN <<DigitChars[n + 1]>>
             ELSE Digits(n \div 10) \o <<DigitChars[(n % 10) + 1]>>

UpperChars == <<"J","U","N","O","I","H">>
LowerChars == <<"j","u","n","o","i","h">>

LowerChar(c) == IF \E i \in 1..Len(UpperChars) : UpperChars[i] = c
                THEN LowerChars[CHOOSE i \in 1..Len(UpperChars) : UpperChars[i] = c]
                ELSE c

\* s.lower()
Lower(s) == [i \in 1..Len(s) |-> LowerChar(s[i])]

\* position of the first occurrence of sub in s, 0 when there is none
Find(s, sub) ==
    LET hits == { i \in 1..(Len(s) - Len(sub) + 1) : SubSeq(s, i, i + Len(sub) - 1) = sub }
    IN IF hits = {} THEN 0 ELSE CHOOSE i \in hits : \A j \in hits : i <= j

\* sub in s
Contains(s, sub) == Find(s, sub) # 0

\* s.split(sub)[0]
SplitHead(s, sub) == IF Contains(s, sub) THEN SubSeq(s, 1, Find(s, sub) - 1) ELSE s

IsSpace(c) == c = " "

\* s.strip()
Strip(s) ==
    LET keep == { i \in 1..Len(s) : ~IsSpace(s[i]) }
    IN IF keep = {} THEN <<>>
       ELSE SubSeq(s, CHOOSE i \in keep : \A j \in keep : i <= j,
                      CHOOSE i \in keep : \A j \in keep : i >= j)

\* int(s) succeeds: an optional sign followed by decimal digits
IntParses(s) ==
    LET body == IF Len(s) > 0 /\ s[1] \in {"-", "+"} THEN Tail(s) ELSE s
    IN Len(body) > 0 /\ \A i \in 1..Len(body) : IsDigit(body[i])

RECURSIVE DigitsValue(_)
DigitsValue(s) == IF Len(s) = 0 THEN 0
                  ELSE 10 * DigitsValue(SubSeq(s, 1, Len(s) - 1)) + DigitValue(s[Len(s)])

\* int(s) when IntParses(s)
IntValue(s) == IF s[1] = "-" THEN 0 - DigitsValue(Tail(s))
               ELSE IF s[1] = "+" THEN DigitsValue(Tail(s))
               ELSE DigitsValue(s)

\* ------------------------------------------------------------------------
\* app.py: bucketing and relative-time parsing
\* ------------------------------------------------------------------------
classify_status_lt(minutes) ==
    IF minutes < 20 THEN "online"
    ELSE IF minutes <= 30 THEN "idle"
    ELSE "offline"

classify_status(minutes) ==
    IF minutes <= 20 THEN "online"
    ELSE IF minutes <= 30 THEN "idle"
    ELSE "offline"

UNKNOWN_MINUTES == 999

\* int(rel.split(word)[0].strip()) * factor, or the fall-through on ValueError
ParseBefore(rel, word, factor) ==
    LET head == Strip(SplitHead(rel, word))
    IN IF IntParses(head) THEN IntValue(head) * factor ELSE UNKNOWN_MINUTES

\* rel is member["last_action"]["relative"], "" when absent
parse_last_action_minutes(relative) ==
    LET rel == Lower(relative)
    IN IF Contains(rel, S_just_now) THEN 0
       ELSE IF Contains(rel, S_minute) THEN ParseBefore(rel, S_minute, 1)
       ELSE IF Contains(rel, S_hour) THEN ParseBefore(rel, S_hour, 60)
       ELSE IF Contains(rel, S_day) THEN ParseBefore(rel, S_day, 1440)
       ELSE UNKNOWN_MINUTES

\* ------------------------------------------------------------------------
\* JSON / Python values of the API payloads.  A dict keeps its keys in
\* insertion order: items is a sequence of <<key, value>> pairs.
\* ------------------------------------------------------------------------
PyNone == [kind |-> "none"]
PyStr(s) == [kind |-> "str", v |-> s]
PyText(s) == [kind |-> "text", v |-> s]
PyInt(n) == [kind |-> "int", v |-> n]
PyBool(b) == [kind |-> "bool", v |-> b]
PyDict(items) == [kind |-> "dict", items |-> items]
PyList(items) == [kind |-> "list", items |-> items]
EmptyDict == PyDict(<<>>)

IsDict(x) == x.kind = "dict"
IsList(x) == x.kind = "list"
IsStr(x) == x.kind = "str"
IsNone(x) == x.kind = "none"

\* k in d
HasKey(d, k) == \E i \in 1..Len(d.items) : d.items[i][1] = k

\* d[k] for a key that is present
Item(d, k) == d.items[CHOOSE i \in 1..Len(d.items) : d.items[i][1] = k][2]

\* d.get(k)
Get(d, k) == IF HasKey(d, k) THEN Item(d, k) ELSE PyNone

\* list(d.keys()), list(d.values())
Keys(d) == [i \in 1..Len(d.items) |-> d.items[i][1]]
Values(d) == [i \in 1..Len(d.items) |-> d.items[i][2]]

\* bool(x)
Truthy(x) ==
    CASE x.kind = "none" -> FALSE
      [] x.kind = "str" -> x.v # ""
      [] x.kind = "text" -> Len(x.v) > 0
      [] x.kind = "int" -> x.v # 0
      [] x.kind = "bool" -> x.v
      [] x.kind = "dict" -> Len(x.items) > 0
      [] x.kind = "list" -> Len(x.items) > 0

\* a or b
Or(a, b) == IF Truthy(a) THEN a ELSE b

\* [v for v in xs if isinstance(v, dict)]
RECURSIVE OnlyDicts(_)
OnlyDicts(xs) == IF Len(xs) = 0 THEN <<>>
                 ELSE IF IsDict(Head(xs)) THEN <<Head(xs)>> \o OnlyDicts(Tail(xs))
                 ELSE OnlyDicts(Tail(xs))

\* numerals that occur as JSON strings in the modelled payloads
NumeralText == <<"0", "1", "2", "3", "4", "5", "6", "7", "8", "9">>

\* str(x) of an int or str value
StrOf(x) == IF x.kind = "int" THEN ToString(x.v) ELSE x.v

\* ------------------------------------------------------------------------
\* torn_api.py: ranked-war helpers
\* ------------------------------------------------------------------------
\* _to_int(x, default=None): int(x), None when x is None or int(x) raises
_to_int(x) ==
    CASE x.kind = "none" -> PyNone
      [] x.kind = "int" -> x
      [] x.kind = "str" ->
            IF \E i \in 1..Len(NumeralText) : NumeralText[i] = x.v
            THEN PyInt((CHOOSE i \in 1..Len(NumeralText) : NumeralText[i] = x.v) - 1)
            ELSE PyNone
      [] OTHER -> PyNone

RECURSIVE _pick(_, _)
_pick(d, keys) ==
    IF Len(keys) = 0 THEN PyNone
    ELSE IF IsDict(d) /\ HasKey(d, Head(keys)) /\ ~IsNone(Item(d, Head(keys)))
         THEN Item(d, Head(keys))
         ELSE _pick(d, Tail(keys))

\* a variant of the fallback that overrides the direct fields
ScoreFromVals_overrides(vals, our, enemy) ==
    IF Len(vals) >= 2
    THEN <<_pick(vals[1], <<"score", "points">>), _pick(vals[2], <<"score", "points">>)>>
    ELSE <<our, enemy>>

\* the fallback of _extract_score on a sequence vals of faction dicts
ScoreFromVals(vals, our, enemy) ==
    IF Len(vals) >= 2
    THEN <<IF IsNone(our) THEN _pick(vals[1], <<"score", "points">>) ELSE our,
           IF IsNone(enemy) THEN _pick(vals[2], <<"score", "points">>) ELSE enemy>>
    ELSE <<our, enemy>>

_extract_score(obj) ==
    IF ~IsDict(obj) THEN <<PyNone, PyNone>>
    ELSE
      LET our == _pick(obj, <<"score", "points", "our_score", "faction_score">>)
          enemy == _pick(obj, <<"enemy_score", "opponent_score", "their_score">>)
          factions == Get(obj, "factions")
          a == IF (IsNone(our) \/ IsNone(enemy)) /\ IsDict(factions)
               THEN ScoreFromVals(OnlyDicts(Values(factions)), our, enemy)
               ELSE <<our, enemy>>
          b == IF (IsNone(a[1]) \/ IsNone(a[2])) /\ IsList(factions)
               THEN ScoreFromVals(OnlyDicts(factions.items), a[1], a[2])
               ELSE a
      IN <<_to_int(b[1]), _to_int(b[2])>>

_extract_time(obj, key_candidates) ==
    IF ~IsDict(obj) THEN PyNone
    ELSE LET val == _pick(obj, key_candidates)
         IN IF IsNone(val) \/ IsDict(val) THEN PyNone ELSE val

_extract_chain(obj) ==
    IF ~IsDict(obj) THEN EmptyDict
    ELSE LET chain == Get(obj, "chain")
         IN IF IsDict(chain)
            THEN PyDict(<< <<"current", Get(chain, "current")>>,
                           <<"max", Get(chain, "max")>>,
                           <<"timeout", Get(chain, "timeout")>>,
                           <<"cooldown", Get(chain, "cooldown")>> >>)
            ELSE EmptyDict

\* item.get("end") or item.get("ended") or item.get("end_time")
EndedOf(item) == Or(Or(Get(item, "end"), Get(item, "ended")), Get(item, "end_time"))

\* the first dict of rw without an end, else rw[0]
RECURSIVE FirstUnended(_, _)
FirstUnended(rest, rw) ==
    IF Len(rest) = 0 THEN rw[1]
    ELSE IF IsDict(Head(rest)) /\ ~Truthy(EndedOf(Head(rest))) THEN Head(rest)
    ELSE FirstUnended(Tail(rest), rw)

_find_active_war_blob(raw) ==
    IF ~IsDict(raw) THEN PyNone
    ELSE LET rw == Get(raw, "rankedwars")
             w == Get(raw, "war")
         IN IF IsDict(rw) THEN rw
            ELSE IF IsList(rw) /\ Len(rw.items) > 0 THEN FirstUnended(rw.items, rw.items)
            ELSE IF IsDict(w) THEN w
            ELSE raw

\* the first truthy name/tag among the faction objects vals, in order
RECURSIVE FirstName(_)
FirstName(vals) ==
    IF Len(vals) = 0 THEN PyNone
    ELSE IF IsDict(Head(vals)) /\ Truthy(_pick(Head(vals), <<"name", "tag">>))
         THEN _pick(Head(vals), <<"name", "tag">>)
         ELSE FirstName(Tail(vals))

_extract_opponent_name(blob) ==
    IF ~IsDict(blob) THEN PyNone
    ELSE
      LET opp == _pick(blob, <<"opponent", "enemy">>)
          name == _pick(blob, <<"opponent_name", "enemy_name">>)
          factions == Get(blob, "factions")
          fromDict == IF IsDict(factions) THEN FirstName(Values(factions)) ELSE PyNone
          fromList == IF IsList(factions) THEN FirstName(factions.items) ELSE PyNone
      IN IF IsDict(opp) THEN _pick(opp, <<"name", "tag">>)
         ELSE IF IsStr(opp) THEN opp
         ELSE IF IsStr(name) THEN name
         ELSE IF ~IsNone(fromDict) THEN fromDict
         ELSE fromList

\* the first element of ids that differs from our_faction_id, else ids[0]
RECURSIVE FirstOther(_, _, _)
FirstOther(rest, ids, our_faction_id) ==
    IF Len(rest) = 0 THEN ids[1]
    ELSE IF Head(rest) # our_faction_id THEN Head(rest)
    ELSE FirstOther(Tail(rest), ids, our_faction_id)

\* ids of the faction objects of a list that carry id/faction_id
RECURSIVE ListIds(_)
ListIds(fs) ==
    IF Len(fs) = 0 THEN <<>>
    ELSE IF IsDict(Head(fs)) /\ ~IsNone(_pick(Head(fs), <<"id", "faction_id">>))
         THEN <<StrOf(_pick(Head(fs), <<"id", "faction_id">>))>> \o ListIds(Tail(fs))
         ELSE ListIds(Tail(fs))

\* if our id is among ids: the first other id (falling through to ids[0]); else ids[0]
PickOtherId(ids, our_faction_id) ==
    IF Len(ids) = 0 THEN PyNone
    ELSE IF our_faction_id # "" /\ \E i \in 1..Len(ids) : ids[i] = our_faction_id
         THEN PyStr(FirstOther(ids, ids, our_faction_id))
         ELSE PyStr(ids[1])

_extract_opponent_id_from_factions(blob, our_faction_id) ==
    IF ~IsDict(blob) THEN PyNone
    ELSE
      LET direct == _pick(blob, <<"opponent_id", "enemy_id", "their_faction_id">>)
          factions == Get(blob, "factions")
      IN IF ~IsNone(direct) THEN PyStr(StrOf(direct))
         ELSE IF IsDict(factions) THEN PickOtherId(Keys(factions), our_faction_id)
         ELSE IF IsList(factions) /\ Len(factions.items) > 0
              THEN PickOtherId(ListIds(factions.items), our_faction_id)
         ELSE PyNone

_normalize_ranked_war(raw, our_faction_id) ==
    LET blob == _find_active_war_blob(raw)
    IN IF ~IsDict(blob) THEN EmptyDict
       ELSE PyDict(<<
          <<"opponent", _extract_opponent_name(blob)>>,
          <<"opponent_id", _extract_opponent_id_from_factions(blob, our_faction_id)>>,
          <<"start", _extract_time(blob, <<"start", "started", "start_time", "begin", "timestamp_start">>)>>,
          <<"end", _extract_time(blob, <<"end", "ended", "end_time", "finish", "timestamp_end">>)>>,
          <<"target", _to_int(_pick(blob, <<"target", "target_score", "goal", "required", "takeout_target">>))>>,
          <<"score", _extract_score(blob)[1]>>,
          <<"enemy_score", _extract_score(blob)[2]>>,
          <<"chain", _extract_chain(blob)>> >>)

\* ------------------------------------------------------------------------
\* app.py: normalize_faction_rows
\* ------------------------------------------------------------------------
\* the (mid, m) pairs of the members collection: the items of a map, or the
\* dict entries of a list keyed by str(m.get("id") or "")
RECURSIVE ListItems(_)
ListItems(ms) ==
    IF Len(ms) = 0 THEN <<>>
    ELSE IF IsDict(Head(ms))
         THEN << <<StrOf(Or(Get(Head(ms), "id"), PyStr(""))), Head(ms)>> >> \o ListItems(Tail(ms))
         ELSE ListItems(Tail(ms))

MemberItems(members) ==
    IF IsDict(members) THEN members.items
    ELSE IF IsList(members) THEN ListItems(members.items)
    ELSE <<>>

\* the loop skips entries that are no dict
RECURSIVE DictItems(_)
DictItems(items) ==
    IF Len(items) = 0 THEN <<>>
    ELSE IF IsDict(Head(items)[2]) THEN <<Head(items)>> \o DictItems(Tail(items))
    ELSE DictItems(Tail(items))

\* a variant that never finds the id
AvailGet_never(avail_map, torn_id) == FALSE

\* avail_map.get(torn_id, False); avail_map is a set of <<id, flag>> pairs
AvailGet(avail_map, torn_id) ==
    \E e \in avail_map : e[1] = torn_id /\ e[2]

\* the row built for one (mid, m) pair
RowOf(mid, m, avail_map) ==
    LET torn_id == StrOf(Or(Get(m, "id"), PyStr(mid)))
        la == Or(Get(m, "last_action"), EmptyDict)
        rel == Or(Get(la, "relative"), PyText(<<>>))
        minutes == parse_last_action_minutes(rel.v)
        st == Or(Get(m, "status"), EmptyDict)
        hosp == Get(st, "state") = PyStr("Hospital") \/ Truthy(Get(m, "hospital"))
    IN [id |-> IF torn_id # "" THEN torn_id ELSE mid,
        name |-> Or(Get(m, "name"), PyStr("-")),
        minutes |-> minutes,
        status |-> classify_status(minutes),
        hospital |-> hosp,
        hospital_until |-> Or(Get(st, "until"), Get(m, "hospital_until")),
        available |-> AvailGet(avail_map, IF torn_id # "" THEN torn_id ELSE mid)]

\* a variant that counts the hospitalised rows under their bucket as well
CountStatus_all(rows, status) ==
    Len(SelectSeq(rows, LAMBDA r : r.status = status))

\* counts[status] += 1 for every row that is not in hospital
CountStatus(rows, status) ==
    Len(SelectSeq(rows, LAMBDA r : ~r.hospital /\ r.status = status))

DEFAULT_CHAIN_MAX == 10

ChainField(chain, k, default) ==
    IF Truthy(Get(chain, k)) THEN Get(chain, k) ELSE PyInt(default)

normalize_faction_rows(v2_payload, avail_map) ==
    LET basic == Or(Get(v2_payload, "basic"), EmptyDict)
        members == Or(Get(v2_payload, "members"), EmptyDict)
        chain == Or(Get(v2_payload, "chain"), EmptyDict)
        items == DictItems(MemberItems(members))
        rows == [i \in 1..Len(items) |-> RowOf(items[i][1], items[i][2], avail_map)]
    IN [rows |-> rows,
        counts |-> [online |-> CountStatus(rows, "online"),
                    idle |-> CountStatus(rows, "idle"),
                    offline |-> CountStatus(rows, "offline"),
                    hospital |-> Len(SelectSeq(rows, LAMBDA r : r.hospital))],
        available_count |-> Len(SelectSeq(rows, LAMBDA r : r.available)),
        header |-> [name |-> Get(basic, "name"), tag |-> Get(basic, "tag"),
                    respect |-> Get(basic, "respect")],
        chain |-> [current |-> ChainField(chain, "current", 0),
                   max |-> ChainField(chain, "max", DEFAULT_CHAIN_MAX),
                   timeout |-> ChainField(chain, "timeout", 0),
                   cooldown |-> ChainField(chain, "cooldown", 0)]]

\* x.get(...) raises AttributeError when x is no dict; the member loop calls
\* it on last_action and status, and .lower() on the relative text
MemberRaises(m) ==
    LET la == Or(Get(m, "last_action"), EmptyDict)
        st == Or(Get(m, "status"), EmptyDict)
    IN \/ ~IsDict(la)
       \/ (IsDict(la) /\ Or(Get(la, "relative"), PyText(<<>>)).kind \notin {"text", "str"})
       \/ ~IsDict(st)

\* the payloads on which normalize_faction_rows leaves with an exception
normalize_faction_rows_raises(v2_payload) ==
    LET p == Or(v2_payload, EmptyDict)
    IN \/ ~IsDict(p)
       \/ /\ IsDict(p)
          /\ LET basic == Or(Get(p, "basic"), EmptyDict)
                 members == Or(Get(p, "members"), EmptyDict)
                 chain == Or(Get(p, "chain"), EmptyDict)
                 items == DictItems(MemberItems(members))
             IN \/ ~IsDict(basic)
                \/ ~IsDict(chain)
                \/ \E i \in 1..Len(items) : MemberRaises(items[i][2])

\* ------------------------------------------------------------------------
\* app.py: split_sections
\* ------------------------------------------------------------------------
\* list.sort(key=minutes) is stable: a row goes behind the rows whose
\* minutes are not larger
InsertRow(sorted, row) ==
    LET k == Len(SelectSeq(sorted, LAMBDA x : x.minutes <= row.minutes))
    IN SubSeq(sorted, 1, k) \o <<row>> \o SubSeq(sorted, k + 1, Len(sorted))

RECURSIVE SortByMinutes(_)
SortByMinutes(rows) ==
    IF Len(rows) = 0 THEN <<>>
    ELSE InsertRow(SortByMinutes(SubSeq(rows, 1, Len(rows) - 1)), rows[Len(rows)])

\* the section of a row that is not in hospital: its status when it has
\* one, else the bucket of its minutes
SectionOf(row) ==
    IF row.status # "" THEN row.status ELSE classify_status(row.minutes)

\* rows whose hospital_until is None all sort under the key "" and keep
\* their order
split_sections(rows) ==
    LET out == SelectSeq(rows, LAMBDA r : ~r.hospital)
    IN [online |-> SortByMinutes(SelectSeq(out, LAMBDA r : SectionOf(r) = "online")),
        idle |-> SortByMinutes(SelectSeq(out, LAMBDA r : SectionOf(r) = "idle")),
        offline |-> SortByMinutes(SelectSeq(out, LAMBDA r : SectionOf(r) \notin {"online", "idle"})),
        hospital |-> SelectSeq(rows, LAMBDA r : r.hospital)]

\* ------------------------------------------------------------------------
\* worker_bot.py: availability of a member and the alert gate
\* ------------------------------------------------------------------------
S_online == <<"o","n","l","i","n","e">>
S_idle == <<"i","d","l","e">>
S_hospital == <<"h","o","s","p","i","t","a","l">>
D_Online == <<"O","n","l","i","n","e">>
D_Idle == <<"I","d","l","e">>
D_Offline == <<"O","f","f","l","i","n","e">>
D_Hospital == <<"I","n"," ","h","o","s","p","i","t","a","l">>

\* env defaults of worker_bot.py; the clock counts in units of one refresh
\* interval and the cooldown is configured to three of them
PING_THRESHOLD == 5
PING_COOLDOWN_SECONDS == 3
REFRESH_INTERVAL == 1

\* minutes of the day of the default availability window "18:00" - "23:59"
AVAIL_START_DEFAULT == 1080
AVAIL_END_DEFAULT == 1439

\* bot.last_pinged_at_utc is None
NoTime == 0 - 1

status_is_online(desc) == Contains(Lower(desc), S_online) \/ Contains(Lower(desc), S_idle)

status_is_hospital(desc) == Contains(Lower(desc), S_hospital)

\* times of day in minutes since midnight
is_within_window(tnow, start_t, end_t) ==
    IF start_t <= end_t THEN start_t <= tnow /\ tnow <= end_t
    ELSE tnow >= start_t \/ tnow <= end_t

\* one pass of the member loop of refresh_loop: the row of member torn_id
\* with status text desc, for the settings row (enabled) and local time tod
MemberRow(torn_id, desc, enabled, tod) ==
    LET hospitalized == status_is_hospital(desc)
        available_now == enabled /\ ~hospitalized /\ status_is_online(desc)
                         /\ is_within_window(tod, AVAIL_START_DEFAULT, AVAIL_END_DEFAULT)
    IN [torn_id |-> torn_id, status |-> desc, hospitalized |-> hospitalized,
        available_now |-> available_now]

\* sorted(rows, key=lambda r: (not r["available_now"], name)): the rows arrive
\* in name order, so the stable sort moves the available rows to the front
SelectRows(rows, flag) ==
    SelectSeq(rows, LAMBDA r : r.available_now = flag)

SortRows(rows) == SelectRows(rows, TRUE) \o SelectRows(rows, FALSE)

CountAvailable(rows) == Len(SelectRows(rows, TRUE))

\* can_ping of the alert step
can_ping(now, last) == (last = NoTime) \/ ((now - last) >= PING_COOLDOWN_SECONDS)

\* ------------------------------------------------------------------------
\* Inputs of the pure helpers
\* ------------------------------------------------------------------------
MinutesInputs == (0 - 2)..MaxMinutes

Units == <<S_second, S_minute, S_hour, S_day, S_week, S_month, S_year>>

\* "<N> <unit> ago", with the plural s when N is not 1
RelativeText(n, u) ==
    Digits(n) \o <<" ">> \o Units[u] \o (IF n = 1 THEN <<>> ELSE <<"s">>) \o S_ago

WellFormedTexts == { RelativeText(n, u) : n \in 0..MaxN, u \in 1..Len(Units) }

OtherTexts == { S_just_now, S_Just_now, S_now, <<>>, S_unknown, S_a_few \o S_minute \o <<"s">> \o S_ago }

RelativeTexts == WellFormedTexts \cup OtherTexts

\* texts the parser does not recognise, and the texts it reads as a number
\* of minutes, hours or days
UnknownTexts == { <<>>, S_unknown }

RecognisedTexts ==
    { RelativeText(n, u) : n \in 0..MaxN, u \in 2..4 } \cup { S_just_now, S_Just_now }

\* a member list of two entries with ids 1 and 2 and the given texts
TwoMembers(t1, t2) ==
    PyDict(<< <<"members", PyList(<<
        PyDict(<< <<"id", PyInt(1)>>,
                  <<"last_action", PyDict(<< <<"relative", PyText(t1)>> >>)>> >>),
        PyDict(<< <<"id", PyInt(2)>>,
                  <<"last_action", PyDict(<< <<"relative", PyText(t2)>> >>)>> >>) >>)>> >>)

OUR_ID == "1001"
OTHER_ID == "2002"

\* a faction object of a war payload
FactionObj(name, score) ==
    PyDict(<< <<"name", PyStr(name)>>, <<"score", PyInt(score)>> >>)

\* the factions collection as a map keyed by faction id, in the given key order
FactionsMap(ourFirst) ==
    IF ourFirst
    THEN PyDict(<< <<OUR_ID, FactionObj("Us", 3)>>, <<OTHER_ID, FactionObj("Them", 5)>> >>)
    ELSE PyDict(<< <<OTHER_ID, FactionObj("Them", 5)>>, <<OUR_ID, FactionObj("Us", 3)>> >>)

\* a war entry: factions map, start and (when ended) end
WarBlob(ourFirst, start, end) ==
    PyDict(<< <<"factions", FactionsMap(ourFirst)>>, <<"start", PyInt(start)>> >>
           \o (IF end = 0 THEN <<>> ELSE << <<"end", PyInt(end)>> >>))

WarBlobs == { WarBlob(f, s, e) : f \in BOOLEAN, s \in 1..2, e \in {0, 3} }

\* two war entries in one container: a list, or a map keyed by war id
WarPairs == { <<WarBlob(TRUE, s1, e1), WarBlob(TRUE, s2, e2)>> :
                 s1 \in 1..2, s2 \in 1..2, e1 \in {0, 3}, e2 \in {0, 3} }

WarContainers ==
    { PyDict(<< <<"rankedwars", PyList(p)>> >>) : p \in WarPairs }
    \cup { PyDict(<< <<"rankedwars", PyDict(<< <<"w1", p[1]>>, <<"w2", p[2]>> >>)>> >>) : p \in WarPairs }

\* a war entry for score extraction: the faction entries carry the scores
\* in scores (0 for an entry without score), as a map keyed by faction id
\* or as a list; direct score fields our and enemy are present when not
\* NoScore
NoScore == 0 - 1

ScoreEntry(i, score) ==
    PyDict(<< <<"name", PyStr(IF i = 1 THEN "Us" ELSE "Them")>> >>
           \o (IF score = 0 THEN <<>> ELSE << <<"score", PyInt(score)>> >>))

ScoreEntries(scores) == [i \in 1..Len(scores) |-> ScoreEntry(i, scores[i])]

FactionIds == <<OUR_ID, OTHER_ID, "3003">>

ScoreObj(scores, our, enemy, asMap) ==
    PyDict(<< <<"factions",
                IF asMap
                THEN PyDict([i \in 1..Len(scores) |-> <<FactionIds[i], ScoreEntry(i, scores[i])>>])
                ELSE PyList(ScoreEntries(scores))>> >>
           \o (IF our = NoScore THEN <<>> ELSE << <<"score", PyInt(our)>> >>)
           \o (IF enemy = NoScore THEN <<>> ELSE << <<"enemy_score", PyInt(enemy)>> >>))

ScoreLists ==
    { <<a, b>> : a \in {0, 3}, b \in {0, 5} } \cup { <<3>>, <<3, 5, 8>> }

\* the shapes in which the API returns the war entry
WarRaws ==
    WarBlobs
    \cup { PyDict(<< <<"rankedwars", PyList(<<b>>)>> >>) : b \in WarBlobs }
    \cup { PyDict(<< <<"war", b>> >>) : b \in WarBlobs }
    \cup { EmptyDict, PyDict(<< <<"rankedwars", PyList(<<>>)>> >>) }
    \cup WarContainers

\* payloads of normalize_faction_rows: two list entries with the same id; a
\* map entry whose id field repeats another entry's key; fields of another
\* type than the expected object
DupListPayload ==
    PyDict(<< <<"members", PyList(<< PyDict(<< <<"id", PyInt(55)>>, <<"name", PyStr("Ann")>> >>),
                                     PyDict(<< <<"id", PyInt(55)>>, <<"name", PyStr("Bo")>> >>) >>)>> >>)

KeyMismatchPayload ==
    PyDict(<< <<"members", PyDict(<< <<"1", PyDict(<< <<"id", PyInt(55)>>, <<"name", PyStr("Ann")>> >>)>>,
                                     <<"55", PyDict(<< <<"name", PyStr("Bo")>> >>)>> >>)>> >>)

StatusTextPayload ==
    PyDict(<< <<"members", PyDict(<< <<"55", PyDict(<< <<"id", PyInt(55)>>,
                                                       <<"status", PyStr("Okay")>> >>)>> >>)>> >>)

LastActionTextPayload ==
    PyDict(<< <<"members", PyDict(<< <<"55", PyDict(<< <<"id", PyInt(55)>>,
                                       <<"last_action", PyText(RelativeText(5, 2))>> >>)>> >>)>> >>)

BasicListPayload ==
    PyDict(<< <<"basic", PyList(<<PyStr("Us")>>)>>, <<"members", EmptyDict>> >>)

ChainIntPayload ==
    PyDict(<< <<"chain", PyInt(7)>>, <<"members", EmptyDict>> >>)

\* members that carry their id under torn_id or user_id only, and a member
\* whose id is no number
TornIdOnlyPayload ==
    PyDict(<< <<"members", PyList(<< PyDict(<< <<"torn_id", PyInt(55)>>, <<"name", PyStr("Ann")>> >>) >>)>> >>)

UserIdOnlyPayload ==
    PyDict(<< <<"members", PyList(<< PyDict(<< <<"user_id", PyInt(55)>>, <<"name", PyStr("Ann")>> >>) >>)>> >>)

TextIdPayload ==
    PyDict(<< <<"members", PyDict(<< <<"55", PyDict(<< <<"id", PyStr("abc")>>, <<"name", PyStr("Ann")>> >>)>> >>)>> >>)

\* members of an unexpected type degrade to no rows
MembersTextPayload == PyDict(<< <<"members", PyStr("none")>> >>)

\* what one iteration of the worker reads: on Online, idle Idle, off Offline
\* and hosp hospitalised members, keyed "1", "2", ... in name order; the
\* members that opted out in their settings row; the local time of day
Reading(on, idle, off, hosp, out, tod) ==
    [on |-> on, idle |-> idle, off |-> off, hosp |-> hosp, out |-> out, tod |-> tod]

\* noon is outside and 20:00 inside the default availability window
Readings ==
    UNION { { Reading(on, 0, 0, 0, {}, 1200),
              Reading(on, 0, 0, 0, {}, 720),
              Reading(on, 0, 0, 0, {1}, 1200),
              Reading(on - 1, 1, 0, 0, {}, 1200),
              Reading(on - 1, 0, 1, 0, {}, 1200),
              Reading(on - 1, 0, 0, 1, {}, 1200) } : on \in 1..MaxMembers }

DescOf(c, i) ==
    IF i <= c.on THEN D_Online
    ELSE IF i <= c.on + c.idle THEN D_Idle
    ELSE IF i <= c.on + c.idle + c.off THEN D_Offline
    ELSE D_Hospital

\* ------------------------------------------------------------------------
\* Inputs of the web process
\* ------------------------------------------------------------------------
Member(id, name, n, u) ==
    PyDict(<< <<"id", PyInt(id)>>, <<"name", PyStr(name)>>,
              <<"last_action", PyDict(<< <<"relative", PyText(RelativeText(n, u))>> >>)>> >>)

HospitalMember(id, name, n, u) ==
    PyDict(<< <<"id", PyInt(id)>>, <<"name", PyStr(name)>>,
              <<"last_action", PyDict(<< <<"relative", PyText(RelativeText(n, u))>> >>)>>,
              <<"status", PyDict(<< <<"state", PyStr("Hospital")>> >>)>> >>)

\* members as a map keyed by id: Ann seen 5 minutes ago, Bo 45 minutes ago
FactionPayloadMap ==
    PyDict(<< <<"basic", PyDict(<< <<"name", PyStr("Us")>>, <<"tag", PyStr("US")>> >>)>>,
              <<"members", PyDict(<< <<"55", Member(55, "Ann", 5, 2)>>,
                                     <<"77", Member(77, "Bo", 45, 2)>> >>)>>,
              <<"chain", PyDict(<< <<"current", PyInt(3)>> >>)>> >>)

\* members as a list: Ann in hospital, Bo seen an hour ago
FactionPayloadList ==
    PyDict(<< <<"basic", PyDict(<< <<"name", PyStr("Us")>> >>)>>,
              <<"members", PyList(<<HospitalMember(55, "Ann", 25, 2), Member(77, "Bo", 1, 3)>>)>> >>)

FactionPayloads == { FactionPayloadMap, FactionPayloadList }

\* the payloads normalize_faction_rows is called with as a pure function
NormalizeInputs ==
    FactionPayloads \cup
    { PyNone, DupListPayload, KeyMismatchPayload, StatusTextPayload, LastActionTextPayload,
      BasicListPayload, ChainIntPayload, MembersTextPayload,
      TornIdOnlyPayload, UserIdOnlyPayload, TextIdPayload,
      TwoMembers(RelativeText(25, 2), S_just_now) }

AvailMaps == { {}, { <<"55", TRUE>> } }

EnemyPayload ==
    PyDict(<< <<"basic", PyDict(<< <<"name", PyStr("Them")>> >>)>>,
              <<"members", PyDict(<< <<"9", Member(9, "Zed", 1, 4)>> >>)>> >>)

\* {"error": ...}: the API answered with an error object
ErrorPayload == PyDict(<< <<"error", PyStr("Incorrect key")>> >>)

\* what get_ranked_war_best_effort returns when both requests succeeded
WarFetched ==
    { PyDict(<< <<"rankedwars", PyList(<<WarBlob(TRUE, 1, 0)>>)>> >>),
      PyDict(<< <<"rankedwars", PyList(<<>>)>> >>) }

\* request bodies of POST /api/availability
AvailabilityBodies ==
    { [torn_id |-> "", available |-> FALSE],
      [torn_id |-> "55", available |-> TRUE],
      [torn_id |-> "77", available |-> TRUE] }

\* the deployments: started by `python app.py` (main) or imported by a WSGI
\* server; CHAIN_SITTER_IDS set or empty; the availability table outlives
\* the process and may hold a row written under an earlier CHAIN_SITTER_IDS;
\* FACTION_ID and FACTION_API_KEY both set (configured) or not
Environments ==
    { [main |-> FALSE, sitters |-> {"55"}, stored |-> { <<"77", TRUE>> }, configured |-> TRUE],
      [main |-> TRUE, sitters |-> {"55"}, stored |-> {}, configured |-> TRUE],
      [main |-> FALSE, sitters |-> {}, stored |-> {}, configured |-> TRUE],
      [main |-> FALSE, sitters |-> {}, stored |-> {}, configured |-> FALSE] }

\* ------------------------------------------------------------------------
\* State
\* ------------------------------------------------------------------------
VARIABLES
    call,                   \* SpecFn: the last helper call, its arguments and its result
    wpc,                    \* worker: position of the refresh_loop task
    wnow,                   \* worker: the clock, datetime.utcnow().timestamp()
    WSTATE,                 \* worker_bot.STATE
    last_pinged_at_utc,     \* bot.last_pinged_at_utc
    DISABLE_DISCORD_POSTS,  \* worker configuration
    ALERT_IDS_SET,          \* ALERT_CHANNEL_ID and ALERT_ROLE_ID are both set
    lastFiredAt,            \* history: time of the latest ch.send call
    lastEval,               \* history: the alert step of the current iteration
    env,                    \* web: how the process was started and configured
    serving,                \* web: the HTTP server accepts requests
    BOOTED,                 \* app.BOOTED
    BOOT_LOCK,              \* app.BOOT_LOCK: the request thread holding it, or NoThread
    rpc,                    \* web: position of each request thread
    ppc,                    \* web: position of each poll thread
    plocal,                 \* web: locals of poll_once in each poll thread
    ASTATE,                  \* app.STATE
    availDB,                \* the availability table
    cycles,                 \* history: number of poll cycles started
    stamp,                  \* history: the cycle that wrote each part of STATE
    tornRead,               \* history: the last /state response mixed fields of two cycles
    cycleResult,            \* history: how the poll cycle that just ended went
    medDB,                  \* the med_deals table, rows in insertion order
    bootLog,                \* history: runs of the boot step of boot_once, and whether one raised
    PSTATE,                 \* web_panel.STATE
    WEB_SHARED_SECRET       \* web_panel.WEB_SHARED_SECRET

fnVars == <<call>>
workerVars == <<wpc, wnow, WSTATE, last_pinged_at_utc, DISABLE_DISCORD_POSTS,
                ALERT_IDS_SET, lastFiredAt, lastEval>>
appVars == <<env, serving, BOOTED, BOOT_LOCK, rpc, ppc, plocal, ASTATE, availDB,
             cycles, stamp, tornRead, cycleResult, medDB, bootLog>>
panelVars == <<PSTATE, WEB_SHARED_SECRET>>
vars == <<fnVars, workerVars, appVars, panelVars>>

\* ------------------------------------------------------------------------
\* Initial state of the web process (app.py:30-51)
\* ------------------------------------------------------------------------
Requests == { 1, 2 }
Pollers == { "main", "boot" }
NoThread == 0

ZeroCounts == [online |-> 0, idle |-> 0, offline |-> 0, hospital |-> 0]

NoWar == [opponent |-> PyNone, opponent_id |-> PyNone, start |-> PyNone, end |-> PyNone,
          target |-> PyNone, score |-> PyNone, enemy_score |-> PyNone]

NoEnemy == [supported |-> TRUE, reason |-> PyNone,
            faction |-> [name |-> PyNone, tag |-> PyNone, respect |-> PyNone, id |-> PyNone],
            rows |-> <<>>, counts |-> ZeroCounts, updated_at |-> PyNone]

InitialState ==
    [rows |-> <<>>, updated_at |-> PyNone, counts |-> ZeroCounts, available_count |-> 0,
     chain |-> [current |-> PyInt(0), max |-> PyInt(DEFAULT_CHAIN_MAX),
                timeout |-> PyInt(0), cooldown |-> PyInt(0)],
     war |-> NoWar,
     faction |-> [name |-> PyNone, tag |-> PyNone, respect |-> PyNone],
     enemy |-> NoEnemy, med_deals |-> <<>>, last_error |-> PyNone]

\* the med_deals table: its rows in insertion order and the last id that
\* AUTOINCREMENT handed out
NoDeals == [seq |-> 0, rows |-> <<>>]

MED_DEALS_LIMIT == 25

\* list_med_deals(limit): ORDER BY id DESC LIMIT limit
list_med_deals(db, limit) ==
    LET n == Len(db.rows)
        desc == [i \in 1..n |-> db.rows[n + 1 - i]]
    IN SubSeq(desc, 1, IF n < limit THEN n ELSE limit)

NoLocals == [avail_map |-> {}, opp_id |-> PyNone, pre |-> <<>>, cycle |-> 0]

NoResult == [ended |-> FALSE]

NoBoot == [attempts |-> 0, raised |-> FALSE]

AppStart(e) ==
    /\ env = e
    /\ serving = ~e.main
    /\ BOOTED = FALSE
    /\ BOOT_LOCK = NoThread
    /\ rpc = [r \in Requests |-> "idle"]
    /\ ppc = [p \in Pollers |-> "off"]
    /\ plocal = [p \in Pollers |-> NoLocals]
    /\ ASTATE = InitialState
    /\ availDB = e.stored
    /\ cycles = 0
    /\ stamp = [core |-> 0, war |-> 0, enemy |-> 0]
    /\ tornRead = FALSE
    /\ cycleResult = NoResult
    /\ medDB = NoDeals
    /\ bootLog = NoBoot

AppIdle == AppStart([main |-> FALSE, sitters |-> {}, stored |-> {}, configured |-> TRUE])

\* ------------------------------------------------------------------------
\* Initial state of the worker (worker_bot.py:46-52, 103-108)
\* ------------------------------------------------------------------------
NoEval == [outcome |-> "none"]

NoCall == [fn |-> "none"]

WorkerStart ==
    /\ wpc = "sleep"
    /\ wnow = 0
    /\ WSTATE = [rows |-> <<>>, updated_at |-> NoTime, available_count |-> 0,
                 chain |-> PyDict(<< <<"current", PyNone>> >>)]
    /\ last_pinged_at_utc = NoTime
    /\ lastFiredAt = NoTime
    /\ lastEval = NoEval

WorkerIdle == WorkerStart /\ DISABLE_DISCORD_POSTS = FALSE /\ ALERT_IDS_SET = TRUE

\* ------------------------------------------------------------------------
\* Initial state of the panel process (web_panel.py:8-19)
\* ------------------------------------------------------------------------
NoPanelChain ==
    PyDict(<< <<"current", PyNone>>, <<"max", PyNone>>, <<"timeout", PyNone>>, <<"cooldown", PyNone>> >>)

NoPanelWar ==
    PyDict(<< <<"opponent", PyNone>>, <<"start", PyNone>>, <<"end", PyNone>>, <<"target", PyNone>> >>)

PanelInitial ==
    [rows |-> PyList(<<>>), updated_at |-> PyNone, chain |-> NoPanelChain,
     war |-> NoPanelWar, available_count |-> PyInt(0)]

PanelStart(secret) == PSTATE = PanelInitial /\ WEB_SHARED_SECRET = secret

PanelIdle == PanelStart("")

FnInit == call = NoCall /\ WorkerIdle /\ AppIdle /\ PanelIdle

CallClassifyStatus ==
    \E m \in MinutesInputs :
        /\ call' = [fn |-> "classify_status", minutes |-> m, ret |-> classify_status(m)]
        /\ UNCHANGED <<workerVars, appVars, panelVars>>

CallParseLastAction ==
    \E t \in RelativeTexts :
        /\ call' = [fn |-> "parse_last_action_minutes", relative |-> t,
                    ret |-> parse_last_action_minutes(t)]
        /\ UNCHANGED <<workerVars, appVars, panelVars>>

CallNormalizeRankedWar ==
    \E raw \in WarRaws :
        /\ call' = [fn |-> "_normalize_ranked_war", raw |-> raw, our |-> OUR_ID,
                    ret |-> _normalize_ranked_war(raw, OUR_ID)]
        /\ UNCHANGED <<workerVars, appVars, panelVars>>

\* normalize_faction_rows(v2_payload, avail_map): its five results, or the
\* exception it leaves with
CallNormalizeFactionRows ==
    \E v2_payload \in NormalizeInputs, avail_map \in AvailMaps :
        /\ call' = [fn |-> "normalize_faction_rows", v2_payload |-> v2_payload,
                    avail_map |-> avail_map,
                    raised |-> normalize_faction_rows_raises(v2_payload),
                    ret |-> IF normalize_faction_rows_raises(v2_payload) THEN PyNone
                            ELSE normalize_faction_rows(Or(v2_payload, EmptyDict), avail_map)]
        /\ UNCHANGED <<workerVars, appVars, panelVars>>

\* _extract_score(blob) of a war entry with or without direct score fields
CallExtractScore ==
    \E scores \in ScoreLists, our \in {NoScore, 0, 7}, enemy \in {NoScore, 9}, asMap \in BOOLEAN :
        /\ call' = [fn |-> "_extract_score", scores |-> scores, our |-> our, enemy |-> enemy,
                    asMap |-> asMap, ret |-> _extract_score(ScoreObj(scores, our, enemy, asMap))]
        /\ UNCHANGED <<workerVars, appVars, panelVars>>

\* panel(): split_sections over the rows normalize_faction_rows stored, for
\* two members of which one has an unrecognised last-action text
CallSplitSections ==
    \E u \in UnknownTexts, t \in RecognisedTexts, unknownFirst \in BOOLEAN :
        LET texts == IF unknownFirst THEN <<u, t>> ELSE <<t, u>>
        IN /\ call' = [fn |-> "split_sections", texts |-> texts,
                       ret |-> split_sections(normalize_faction_rows(TwoMembers(texts[1], texts[2]), {}).rows)]
           /\ UNCHANGED <<workerVars, appVars, panelVars>>

FnNext ==
    \/ CallClassifyStatus
    \/ CallParseLastAction
    \/ CallNormalizeRankedWar
    \/ CallNormalizeFactionRows
    \/ CallSplitSections
    \/ CallExtractScore

SpecFn == FnInit /\ [][FnNext]_vars

\* ------------------------------------------------------------------------
\* SpecPanel: the push_state handler of web_panel.py
\* ------------------------------------------------------------------------
PANEL_SECRET == "s3cret"

\* the optional fields of a pushed object; Absent leaves the key out
Absent == [kind |-> "absent"]

PushObject(rows, updated_at, chain, available_count) ==
    LET f == << <<"rows", rows>>, <<"updated_at", updated_at>>, <<"chain", chain>>,
                <<"available_count", available_count>> >>
    IN PyDict(SelectSeq(f, LAMBDA e : e[2] # Absent))

PanelRow == PyDict(<< <<"id", PyInt(1)>>, <<"available_now", PyBool(TRUE)>> >>)

PushedChain ==
    PyDict(<< <<"current", PyInt(3)>>, <<"max", PyInt(10)>>, <<"timeout", PyInt(0)>>, <<"cooldown", PyInt(0)>> >>)

\* request.get_json(silent=True): None for a body that is no JSON, else the
\* parsed value, an object or not
PushBodies ==
    { PyNone, PyList(<<>>), PyList(<<PyInt(1)>>), PyStr("rows") }
    \cup { PushObject(r, u, c, n) :
              r \in {Absent, PyList(<<PanelRow>>)},
              u \in {Absent} \cup { PyInt(t) : t \in 1..MaxPushes },
              c \in {Absent, PushedChain, PyStr("none")},
              n \in {Absent, PyInt(1), PyStr("2"), PyStr("abc")} }

PushRequests == [secret : {"", PANEL_SECRET, "wrong"}, json : PushBodies]

\* the secret check of push_state
PushForbidden(req) == WEB_SHARED_SECRET = "" \/ req.secret # WEB_SHARED_SECRET

\* data = request.get_json(silent=True) or {}
PushData(req) == Or(req.json, EmptyDict)

\* for k in (...): if k in data: STATE[k] = data[k]
PushProvided(S, data) ==
    [k \in DOMAIN S |-> IF HasKey(data, k) THEN Item(data, k) ELSE S[k]]

\* STATE["rows"] = STATE.get("rows") or []
PushRows(S) == [S EXCEPT !.rows = Or(S.rows, PyList(<<>>))]

\* int(x or 0) raises ValueError or TypeError
IntRaises(x) == Truthy(x) /\ IsNone(_to_int(x))

\* the rest of the normalisation, after int() returned
PushNormalized(S) ==
    [S EXCEPT !.available_count = IF Truthy(S.available_count) THEN _to_int(S.available_count)
                                  ELSE PyInt(0),
              !.chain = IF IsDict(S.chain) THEN S.chain ELSE NoPanelChain,
              !.war = IF IsDict(S.war) THEN S.war ELSE NoPanelWar]

\* the answer, with the STATE the request found
PanelResponse(req, status) ==
    call' = [fn |-> "push_state", secret |-> req.secret, status |-> status, pre |-> PSTATE]

PushStateForbidden ==
    \E req \in PushRequests :
        /\ PushForbidden(req)
        /\ PanelResponse(req, 403)
        /\ UNCHANGED <<workerVars, appVars, panelVars>>

PushStateBadJson ==
    \E req \in PushRequests :
        /\ ~PushForbidden(req)
        /\ ~IsDict(PushData(req))
        /\ PanelResponse(req, 400)
        /\ UNCHANGED <<workerVars, appVars, panelVars>>

\* int() raises after the provided keys were stored: Flask answers 500
PushStateRaises ==
    \E req \in PushRequests :
        /\ ~PushForbidden(req)
        /\ IsDict(PushData(req))
        /\ LET S == PushRows(PushProvided(PSTATE, PushData(req)))
           IN /\ IntRaises(S.available_count)
              /\ PSTATE' = S
        /\ PanelResponse(req, 500)
        /\ UNCHANGED <<workerVars, appVars, WEB_SHARED_SECRET>>

PushState ==
    \E req \in PushRequests :
        /\ ~PushForbidden(req)
        /\ IsDict(PushData(req))
        /\ LET S == PushRows(PushProvided(PSTATE, PushData(req)))
           IN /\ ~IntRaises(S.available_count)
              /\ PSTATE' = PushNormalized(S)
        /\ PanelResponse(req, 200)
        /\ UNCHANGED <<workerVars, appVars, WEB_SHARED_SECRET>>

PanelInit ==
    /\ call = NoCall
    /\ WorkerIdle
    /\ AppIdle
    /\ \E secret \in {"", PANEL_SECRET} : PanelStart(secret)

PanelNext ==
    \/ PushStateForbidden
    \/ PushStateBadJson
    \/ PushStateRaises
    \/ PushState

SpecPanel == PanelInit /\ [][PanelNext]_vars

\* ------------------------------------------------------------------------
\* SpecWorker: refresh_loop of worker_bot.py, a discord.ext.tasks loop.  The
\* task runs one iteration per interval; an exception that leaves the
\* iteration ends the task (the library re-raises it).
\* ------------------------------------------------------------------------
WorkerInit ==
    /\ call = NoCall
    /\ AppIdle
    /\ PanelIdle
    /\ WorkerStart
    /\ DISABLE_DISCORD_POSTS \in BOOLEAN
    /\ ALERT_IDS_SET \in BOOLEAN

\* the wait of tasks.loop between two iterations; a slow iteration makes it longer
WorkerSleep ==
    /\ wpc = "sleep"
    /\ \E d \in REFRESH_INTERVAL..MaxGap :
          /\ wnow + d <= MaxTime
          /\ wnow' = wnow + d
    /\ wpc' = "ready"
    /\ lastEval' = NoEval
    /\ UNCHANGED <<appVars, panelVars, call, WSTATE, last_pinged_at_utc, DISABLE_DISCORD_POSTS,
                   ALERT_IDS_SET, lastFiredAt>>

\* a variant that forgets the last ping when the fetch fails
RefreshFetchFailed_clears ==
    /\ wpc = "ready"
    /\ wpc' = "sleep"
    /\ last_pinged_at_utc' = NoTime
    /\ UNCHANGED <<appVars, panelVars, call, wnow, WSTATE, DISABLE_DISCORD_POSTS,
                   ALERT_IDS_SET, lastFiredAt, lastEval>>

\* get_faction_overview raises: logged, the iteration returns
RefreshFetchFailed ==
    /\ wpc = "ready"
    /\ wpc' = "sleep"
    /\ UNCHANGED <<appVars, panelVars, call, wnow, WSTATE, last_pinged_at_utc, DISABLE_DISCORD_POSTS,
                   ALERT_IDS_SET, lastFiredAt, lastEval>>

\* the chain of the payload is stored, then get_all_settings (or
\* get_key_for_torn_id) raises: nothing catches it, the task ends
RefreshSettingsFailed ==
    /\ wpc = "ready"
    /\ \E c \in Readings :
          WSTATE' = [WSTATE EXCEPT !.chain = PyDict(<< <<"current", PyInt(c.on)>> >>)]
    /\ wpc' = "stopped"
    /\ UNCHANGED <<appVars, panelVars, call, wnow, last_pinged_at_utc, DISABLE_DISCORD_POSTS,
                   ALERT_IDS_SET, lastFiredAt, lastEval>>

\* a complete pass: chain, settings, member rows, STATE["rows"],
\* STATE["available_count"], STATE["updated_at"]
RefreshPublish ==
    /\ wpc = "ready"
    /\ \E c \in Readings :
          LET n == c.on + c.idle + c.off + c.hosp
              rows == [i \in 1..n |-> MemberRow(i, DescOf(c, i), i \notin c.out, c.tod)]
          IN WSTATE' = [rows |-> SortRows(rows),
                        available_count |-> CountAvailable(rows),
                        updated_at |-> wnow,
                        chain |-> PyDict(<< <<"current", PyInt(c.on)>> >>)]
    /\ wpc' = "published"
    /\ UNCHANGED <<appVars, panelVars, call, wnow, last_pinged_at_utc, DISABLE_DISCORD_POSTS,
                   ALERT_IDS_SET, lastFiredAt, lastEval>>

\* push_state_to_web: posts STATE to the dashboard, swallowing every error
RefreshPush ==
    /\ wpc = "published"
    /\ wpc' = "pushed"
    /\ UNCHANGED <<appVars, panelVars, call, wnow, WSTATE, last_pinged_at_utc, DISABLE_DISCORD_POSTS,
                   ALERT_IDS_SET, lastFiredAt, lastEval>>

\* members of the snapshot whose status is online or idle
OnlineIdleCount(rows) == Len(SelectSeq(rows, LAMBDA r : status_is_online(r.status)))

AlertPredicate ==
    WSTATE.available_count >= PING_THRESHOLD /\ ALERT_IDS_SET

Evaluation(outcome) ==
    [outcome |-> outcome, at |-> wnow, available_count |-> WSTATE.available_count,
     online_idle |-> OnlineIdleCount(WSTATE.rows), prevFired |-> lastFiredAt]

\* the alert step returns without looking at the cooldown
AlertNotDue ==
    /\ wpc = "pushed"
    /\ DISABLE_DISCORD_POSTS \/ ~AlertPredicate
    /\ wpc' = "sleep"
    /\ lastEval' = Evaluation("not_due")
    /\ UNCHANGED <<appVars, panelVars, call, wnow, WSTATE, last_pinged_at_utc, DISABLE_DISCORD_POSTS,
                   ALERT_IDS_SET, lastFiredAt>>

\* can_ping is false
AlertSuppressed ==
    /\ wpc = "pushed"
    /\ ~DISABLE_DISCORD_POSTS /\ AlertPredicate
    /\ ~can_ping(wnow, last_pinged_at_utc)
    /\ wpc' = "sleep"
    /\ lastEval' = Evaluation("suppressed")
    /\ UNCHANGED <<appVars, panelVars, call, wnow, WSTATE, last_pinged_at_utc, DISABLE_DISCORD_POSTS,
                   ALERT_IDS_SET, lastFiredAt>>

\* bot.get_channel returns None
AlertNoChannel ==
    /\ wpc = "pushed"
    /\ ~DISABLE_DISCORD_POSTS /\ AlertPredicate
    /\ can_ping(wnow, last_pinged_at_utc)
    /\ wpc' = "sleep"
    /\ lastEval' = Evaluation("no_channel")
    /\ UNCHANGED <<appVars, panelVars, call, wnow, WSTATE, last_pinged_at_utc, DISABLE_DISCORD_POSTS,
                   ALERT_IDS_SET, lastFiredAt>>

\* ch.send returns: the timestamp is recorded
AlertSent ==
    /\ wpc = "pushed"
    /\ ~DISABLE_DISCORD_POSTS /\ AlertPredicate
    /\ can_ping(wnow, last_pinged_at_utc)
    /\ last_pinged_at_utc' = wnow
    /\ lastFiredAt' = wnow
    /\ wpc' = "sleep"
    /\ lastEval' = Evaluation("sent")
    /\ UNCHANGED <<appVars, panelVars, call, wnow, WSTATE, DISABLE_DISCORD_POSTS, ALERT_IDS_SET>>

\* ch.send raises discord.HTTPException: logged, the timestamp is not recorded
AlertSendFailed ==
    /\ wpc = "pushed"
    /\ ~DISABLE_DISCORD_POSTS /\ AlertPredicate
    /\ can_ping(wnow, last_pinged_at_utc)
    /\ lastFiredAt' = wnow
    /\ wpc' = "sleep"
    /\ lastEval' = Evaluation("send_failed")
    /\ UNCHANGED <<appVars, panelVars, call, wnow, WSTATE, last_pinged_at_utc, DISABLE_DISCORD_POSTS,
                   ALERT_IDS_SET>>

WorkerNext ==
    \/ WorkerSleep
    \/ RefreshFetchFailed
    \/ RefreshSettingsFailed
    \/ RefreshPublish
    \/ RefreshPush
    \/ AlertNotDue
    \/ AlertSuppressed
    \/ AlertNoChannel
    \/ AlertSent
    \/ AlertSendFailed

SpecWorker == WorkerInit /\ [][WorkerNext]_vars

\* ------------------------------------------------------------------------
\* Spec: the web process of app.py.  A poll thread runs poll_loop; its steps
\* are the stretches of poll_once between two awaits (the interpreter may
\* also switch threads inside a stretch: every behaviour here is one of the
\* program).  Request threads run boot_once and then a handler.
\* ------------------------------------------------------------------------
Init ==
    /\ call = NoCall
    /\ WorkerIdle
    /\ PanelIdle
    /\ \E e \in Environments : AppStart(e)

FACTION_ID == OUR_ID

\* now_iso(): the clock of the web process counts poll cycles
now_iso == PyInt(cycles)

\* the snapshot fields that a poll cycle publishes
Data(S) == <<S.rows, S.counts, S.available_count, S.faction, S.chain, S.war, S.enemy>>

\* get_availability_map(): torn_id -> available
get_availability_map == availDB

\* upsert_availability(torn_id, available)
upsert_availability(db, torn_id, available) ==
    { e \in db : e[1] # torn_id } \cup { <<torn_id, available>> }

\* is_chain_sitter(torn_id)
is_chain_sitter(torn_id) == torn_id \in env.sitters

\* __main__: init_db(), init_med_deals_db(), start_poll_thread(), app.run()
MainBlock ==
    /\ env.main /\ ~serving
    /\ ppc' = [ppc EXCEPT !["main"] = "begin"]
    /\ serving' = TRUE
    /\ UNCHANGED <<fnVars, workerVars, panelVars, medDB, bootLog, env, BOOTED, BOOT_LOCK, rpc, plocal, ASTATE,
                   availDB, cycles, stamp, tornRead, cycleResult>>

\* the except branch of poll_loop, followed by the end of the cycle
CycleFails(p, S, message) ==
    LET S2 == [S EXCEPT !.last_error = PyStr(message), !.updated_at = now_iso]
    IN /\ ASTATE' = S2
       /\ ppc' = [ppc EXCEPT ![p] = "sleep"]
       /\ plocal' = [plocal EXCEPT ![p] = NoLocals]
       /\ cycleResult' = [ended |-> TRUE, fetch_failed |-> TRUE, error_recorded |-> TRUE,
                          unchanged |-> Data(S2) = plocal[p].pre]

\* the tail of poll_once: med deals, updated_at, last_error = None
CycleCompletes(p, S, failed) ==
    LET S2 == [S EXCEPT !.med_deals = list_med_deals(medDB, MED_DEALS_LIMIT),
                        !.updated_at = now_iso, !.last_error = PyNone]
    IN /\ ASTATE' = S2
       /\ ppc' = [ppc EXCEPT ![p] = "sleep"]
       /\ plocal' = [plocal EXCEPT ![p] = NoLocals]
       /\ cycleResult' = [ended |-> TRUE, fetch_failed |-> failed, error_recorded |-> FALSE,
                          unchanged |-> Data(S2) = plocal[p].pre]

\* a variant that skips the check of FACTION_ID and FACTION_API_KEY
PollConfigMissing_fetches(p) ==
    /\ ppc[p] = "begin"
    /\ ~env.configured
    /\ cycles < MaxCycles
    /\ cycles' = cycles + 1
    /\ plocal' = [plocal EXCEPT ![p] =
          [avail_map |-> availDB, opp_id |-> PyNone, pre |-> Data(ASTATE),
           cycle |-> cycles + 1]]
    /\ ppc' = [ppc EXCEPT ![p] = "core"]
    /\ cycleResult' = NoResult
    /\ UNCHANGED <<fnVars, workerVars, panelVars, medDB, bootLog, env, serving, BOOTED, BOOT_LOCK, rpc, ASTATE,
                   availDB, stamp, tornRead>>

\* poll_once with FACTION_ID or FACTION_API_KEY missing: RuntimeError before
\* anything is read or fetched, recorded by the except branch of poll_loop
PollConfigMissing(p) ==
    /\ ppc[p] = "begin"
    /\ ~env.configured
    /\ cycles < MaxCycles
    /\ cycles' = cycles + 1
    /\ ASTATE' = [ASTATE EXCEPT !.last_error = PyStr("Missing FACTION_ID or FACTION_API_KEY"),
                                !.updated_at = PyInt(cycles + 1)]
    /\ ppc' = [ppc EXCEPT ![p] = "sleep"]
    /\ cycleResult' = [ended |-> TRUE, fetch_failed |-> TRUE, error_recorded |-> TRUE,
                       unchanged |-> Data(ASTATE') = Data(ASTATE)]
    /\ UNCHANGED <<fnVars, workerVars, panelVars, medDB, bootLog, env, serving, BOOTED, BOOT_LOCK, rpc, plocal,
                   availDB, stamp, tornRead>>

\* poll_once up to the first await: the availability map is read
PollBegin(p) ==
    /\ ppc[p] = "begin"
    /\ env.configured
    /\ cycles < MaxCycles
    /\ cycles' = cycles + 1
    /\ plocal' = [plocal EXCEPT ![p] =
          [avail_map |-> get_availability_map, opp_id |-> PyNone, pre |-> Data(ASTATE),
           cycle |-> cycles + 1]]
    /\ ppc' = [ppc EXCEPT ![p] = "core"]
    /\ cycleResult' = NoResult
    /\ UNCHANGED <<fnVars, workerVars, panelVars, medDB, bootLog, env, serving, BOOTED, BOOT_LOCK, rpc, ASTATE,
                   availDB, stamp, tornRead>>

\* get_faction_core raises, or answers with an error object
PollCoreFails(p) ==
    /\ ppc[p] = "core"
    /\ CycleFails(p, ASTATE, "Torn API error (core)")
    /\ UNCHANGED <<fnVars, workerVars, panelVars, medDB, bootLog, env, serving, BOOTED, BOOT_LOCK, rpc,
                   availDB, cycles, stamp, tornRead>>

\* get_faction_core answers: rows, counts, available_count, faction and
\* chain are stored, then the war fetch is awaited
PollCore(p) ==
    /\ ppc[p] = "core"
    /\ \E our_payload \in FactionPayloads :
          LET n == normalize_faction_rows(our_payload, plocal[p].avail_map)
          IN ASTATE' = [ASTATE EXCEPT !.rows = n.rows, !.counts = n.counts,
                                    !.available_count = n.available_count,
                                    !.faction = n.header, !.chain = n.chain]
    /\ stamp' = [stamp EXCEPT !.core = plocal[p].cycle]
    /\ ppc' = [ppc EXCEPT ![p] = "war"]
    /\ UNCHANGED <<fnVars, workerVars, panelVars, medDB, bootLog, env, serving, BOOTED, BOOT_LOCK, rpc, plocal,
                   availDB, cycles, tornRead, cycleResult>>

\* STATE["war"] of a normalised war
WarFields(war) ==
    [opponent |-> Get(war, "opponent"), opponent_id |-> Get(war, "opponent_id"),
     start |-> Get(war, "start"), end |-> Get(war, "end"), target |-> Get(war, "target"),
     score |-> Get(war, "score"), enemy_score |-> Get(war, "enemy_score")]

\* the rest of poll_once after get_ranked_war_best returned war; failed
\* tells that both requests of get_ranked_war_best_effort failed
AfterWar(p, war, failed) ==
    LET S1 == [ASTATE EXCEPT !.war = WarFields(war)]
        opp_id == Get(war, "opponent_id")
    IN /\ stamp' = [stamp EXCEPT !.war = plocal[p].cycle,
                                 !.enemy = IF Truthy(opp_id) THEN @ ELSE plocal[p].cycle]
       /\ IF Truthy(opp_id)
          THEN /\ ASTATE' = S1
               /\ ppc' = [ppc EXCEPT ![p] = "enemy"]
               /\ plocal' = [plocal EXCEPT ![p].opp_id = opp_id]
               /\ UNCHANGED cycleResult
          ELSE CycleCompletes(p, [S1 EXCEPT !.enemy = NoEnemy], failed)

\* get_ranked_war_best answers with the war the API returned
PollWar(p) ==
    /\ ppc[p] = "war"
    /\ \E raw \in WarFetched : AfterWar(p, _normalize_ranked_war(raw, FACTION_ID), FALSE)
    /\ UNCHANGED <<fnVars, workerVars, panelVars, medDB, bootLog, env, serving, BOOTED, BOOT_LOCK, rpc,
                   availDB, cycles, tornRead>>

\* both requests of get_ranked_war_best_effort time out or answer with an
\* error: it returns {}
PollWarFetchFails(p) ==
    /\ ppc[p] = "war"
    /\ AfterWar(p, _normalize_ranked_war(EmptyDict, FACTION_ID), TRUE)
    /\ UNCHANGED <<fnVars, workerVars, panelVars, medDB, bootLog, env, serving, BOOTED, BOOT_LOCK, rpc,
                   availDB, cycles, tornRead>>

\* the enemy get_faction_core raises
PollEnemyRaises(p) ==
    /\ ppc[p] = "enemy"
    /\ CycleFails(p, ASTATE, "timeout")
    /\ UNCHANGED <<fnVars, workerVars, panelVars, medDB, bootLog, env, serving, BOOTED, BOOT_LOCK, rpc,
                   availDB, cycles, stamp, tornRead>>

\* the enemy get_faction_core answers with an error object
PollEnemyError(p) ==
    /\ ppc[p] = "enemy"
    /\ CycleCompletes(p,
          [ASTATE EXCEPT !.enemy =
              [supported |-> TRUE, reason |-> PyStr("Enemy fetch error"),
               faction |-> [name |-> PyNone, tag |-> PyNone, respect |-> PyNone,
                            id |-> plocal[p].opp_id],
               rows |-> <<>>, counts |-> ZeroCounts, updated_at |-> now_iso]],
          TRUE)
    /\ stamp' = [stamp EXCEPT !.enemy = plocal[p].cycle]
    /\ UNCHANGED <<fnVars, workerVars, panelVars, medDB, bootLog, env, serving, BOOTED, BOOT_LOCK, rpc,
                   availDB, cycles, tornRead>>

\* the enemy get_faction_core answers with the enemy faction
PollEnemy(p) ==
    /\ ppc[p] = "enemy"
    /\ LET n == normalize_faction_rows(EnemyPayload, {})
       IN CycleCompletes(p,
             [ASTATE EXCEPT !.enemy =
                 [supported |-> TRUE, reason |-> PyNone,
                  faction |-> [name |-> n.header.name, tag |-> n.header.tag,
                               respect |-> n.header.respect, id |-> plocal[p].opp_id],
                  rows |-> n.rows, counts |-> n.counts, updated_at |-> now_iso]],
             FALSE)
    /\ stamp' = [stamp EXCEPT !.enemy = plocal[p].cycle]
    /\ UNCHANGED <<fnVars, workerVars, panelVars, medDB, bootLog, env, serving, BOOTED, BOOT_LOCK, rpc,
                   availDB, cycles, tornRead>>

\* asyncio.sleep(POLL_SECONDS) returns
PollSleep(p) ==
    /\ ppc[p] = "sleep"
    /\ ppc' = [ppc EXCEPT ![p] = "begin"]
    /\ cycleResult' = NoResult
    /\ UNCHANGED <<fnVars, workerVars, panelVars, medDB, bootLog, env, serving, BOOTED, BOOT_LOCK, rpc, plocal,
                   ASTATE, availDB, cycles, stamp, tornRead>>

\* boot_once: BOOTED is read as False outside the lock
BootCheck(r) ==
    /\ serving /\ rpc[r] = "idle" /\ ~BOOTED
    /\ rpc' = [rpc EXCEPT ![r] = "lock_wait"]
    /\ UNCHANGED <<fnVars, workerVars, panelVars, medDB, bootLog, env, serving, BOOTED, BOOT_LOCK, ppc, plocal,
                   ASTATE, availDB, cycles, stamp, tornRead, cycleResult>>

\* a variant without the second look at BOOTED under the lock
BootAcquire_unchecked(r) ==
    /\ rpc[r] = "lock_wait" /\ BOOT_LOCK = NoThread
    /\ BOOT_LOCK' = r
    /\ rpc' = [rpc EXCEPT ![r] = "in_lock"]
    /\ UNCHANGED <<fnVars, workerVars, panelVars, medDB, bootLog, env, serving, BOOTED, ppc, plocal,
                   ASTATE, availDB, cycles, stamp, tornRead, cycleResult>>

\* with BOOT_LOCK: BOOTED is still False under the lock
BootAcquire(r) ==
    /\ rpc[r] = "lock_wait" /\ BOOT_LOCK = NoThread /\ ~BOOTED
    /\ BOOT_LOCK' = r
    /\ rpc' = [rpc EXCEPT ![r] = "in_lock"]
    /\ UNCHANGED <<fnVars, workerVars, panelVars, medDB, bootLog, env, serving, BOOTED, ppc, plocal,
                   ASTATE, availDB, cycles, stamp, tornRead, cycleResult>>

\* with BOOT_LOCK: BOOTED is True under the lock, return and release
BootAlready(r) ==
    /\ rpc[r] = "lock_wait" /\ BOOT_LOCK = NoThread /\ BOOTED
    /\ rpc' = [rpc EXCEPT ![r] = "idle"]
    /\ UNCHANGED <<fnVars, workerVars, panelVars, medDB, bootLog, env, serving, BOOTED, BOOT_LOCK, ppc, plocal,
                   ASTATE, availDB, cycles, stamp, tornRead, cycleResult>>

\* init_db(), init_med_deals_db(), start_poll_thread(), BOOTED = True
BootOk(r) ==
    /\ rpc[r] = "in_lock"
    /\ ppc' = [ppc EXCEPT !["boot"] = "begin"]
    /\ BOOTED' = TRUE
    /\ BOOT_LOCK' = NoThread
    /\ rpc' = [rpc EXCEPT ![r] = "idle"]
    /\ bootLog' = [bootLog EXCEPT !.attempts = @ + 1]
    /\ UNCHANGED <<fnVars, workerVars, panelVars, medDB, env, serving, plocal,
                   ASTATE, availDB, cycles, stamp, tornRead, cycleResult>>

\* init_db() or init_med_deals_db() raises: BOOT ERROR is recorded
BootFails(r) ==
    /\ rpc[r] = "in_lock"
    /\ ASTATE' = [ASTATE EXCEPT !.last_error = PyStr("BOOT ERROR"), !.updated_at = now_iso]
    /\ BOOTED' = TRUE
    /\ BOOT_LOCK' = NoThread
    /\ rpc' = [rpc EXCEPT ![r] = "idle"]
    /\ bootLog' = [attempts |-> bootLog.attempts + 1, raised |-> TRUE]
    /\ UNCHANGED <<fnVars, workerVars, panelVars, medDB, env, serving, ppc, plocal,
                   availDB, cycles, stamp, tornRead, cycleResult>>

\* boot_once has returned: BOOTED is True
HandlerRuns(r) == serving /\ rpc[r] = "idle" /\ BOOTED

\* GET /state: jsonify(STATE)
GetState(r) ==
    /\ HandlerRuns(r)
    /\ tornRead' = (Cardinality({ stamp.core, stamp.war, stamp.enemy }) > 1)
    /\ UNCHANGED <<fnVars, workerVars, panelVars, medDB, bootLog, env, serving, BOOTED, BOOT_LOCK, rpc, ppc, plocal,
                   ASTATE, availDB, cycles, stamp, cycleResult>>

\* POST /api/availability with an id and a flag (AVAIL_TOKEN is not set)
PostAvailability(r) ==
    /\ HandlerRuns(r)
    /\ \E body \in AvailabilityBodies :
          IF body.torn_id = "" THEN UNCHANGED availDB
          ELSE IF env.sitters # {} /\ ~is_chain_sitter(body.torn_id) THEN UNCHANGED availDB
          ELSE availDB' = upsert_availability(availDB, body.torn_id, body.available)
    /\ UNCHANGED <<fnVars, workerVars, panelVars, medDB, bootLog, env, serving, BOOTED, BOOT_LOCK, rpc, ppc, plocal,
                   ASTATE, cycles, stamp, tornRead, cycleResult>>

\* POST /api/availability for an accepted id: upsert_availability raises,
\* the except branch records OPT API ERROR
PostAvailabilityFails(r) ==
    /\ HandlerRuns(r)
    /\ \E body \in AvailabilityBodies :
          /\ body.torn_id # ""
          /\ env.sitters = {} \/ is_chain_sitter(body.torn_id)
    /\ ASTATE' = [ASTATE EXCEPT !.last_error = PyStr("OPT API ERROR"), !.updated_at = now_iso]
    /\ UNCHANGED <<fnVars, workerVars, panelVars, medDB, bootLog, env, serving, BOOTED, BOOT_LOCK, rpc, ppc, plocal,
                   availDB, cycles, stamp, tornRead, cycleResult>>

\* the steps of a process served by a WSGI server: poll threads and requests
NextServed ==
    \/ \E p \in Pollers :
          \/ PollConfigMissing(p)
          \/ PollBegin(p)
          \/ PollCoreFails(p)
          \/ PollCore(p)
          \/ PollWar(p)
          \/ PollWarFetchFails(p)
          \/ PollEnemyRaises(p)
          \/ PollEnemyError(p)
          \/ PollEnemy(p)
          \/ PollSleep(p)
    \/ \E r \in Requests :
          \/ BootCheck(r)
          \/ BootAcquire(r)
          \/ BootAlready(r)
          \/ BootOk(r)
          \/ BootFails(r)
          \/ GetState(r)
          \/ PostAvailability(r)
          \/ PostAvailabilityFails(r)

Next == MainBlock \/ NextServed

Spec == Init /\ [][Next]_vars

\* SpecServed: the deployments in which the module is imported by a WSGI
\* server, so that the __main__ block never runs
InitServed ==
    /\ call = NoCall
    /\ WorkerIdle
    /\ PanelIdle
    /\ \E e \in { d \in Environments : ~d.main } : AppStart(e)

SpecServed == InitServed /\ [][NextServed]_vars

\* ------------------------------------------------------------------------
\* SpecApi: the handlers of app.py that work on the stored tables, in a
\* process that has booted
\* ------------------------------------------------------------------------
API_TOKEN == "t0ken"

\* AVAIL_TOKEN, CHAIN_SITTER_IDS and MED_DEALS_ADMIN_IDS unset, or all set
ApiEnvironments ==
    { [main |-> FALSE, sitters |-> {}, stored |-> {}, configured |-> TRUE,
       token |-> "", admins |-> {}],
      [main |-> FALSE, sitters |-> {"55"}, stored |-> {}, configured |-> TRUE,
       token |-> API_TOKEN, admins |-> {"99"}] }

\* a or b or ... or "" over strings
RECURSIVE FirstTruthy(_)
FirstTruthy(xs) ==
    IF Len(xs) = 0 THEN ""
    ELSE IF Head(xs) # "" THEN Head(xs)
    ELSE FirstTruthy(Tail(xs))

\* the token of a request, in the order X-Avail-Token, X-Token, ?token=,
\* JSON token
TokenSources ==
    { <<"", "", "", "">>, <<"", API_TOKEN, "", "">>, <<"wrong", "", "", API_TOKEN>> }

\* a variant that accepts every request
token_ok_always(req) == TRUE

token_ok(req) ==
    IF env.token = "" THEN TRUE
    ELSE FirstTruthy(req.tokens) = env.token

\* the ids of a body: data.get("torn_id") or data.get("id") or ""
AvailabilityRequests ==
    [tokens : TokenSources,
     ids : { <<"", "">>, <<"55", "">>, <<"", "77">> },
     available : BOOLEAN]

\* the answer of a handler, with the table the request found
ApiResponse(fn, req, status, pre) ==
    call' = [fn |-> fn, req |-> req, status |-> status, pre |-> pre]

\* the three checks of api_availability, in the order of the code
AvailabilityRejection(req) ==
    IF ~token_ok(req) THEN 401
    ELSE IF FirstTruthy(req.ids) = "" THEN 400
    ELSE IF env.sitters # {} /\ ~is_chain_sitter(FirstTruthy(req.ids)) THEN 403
    ELSE 0

ApiAvailabilityRejected ==
    \E req \in AvailabilityRequests :
        /\ BOOTED
        /\ AvailabilityRejection(req) # 0
        /\ ApiResponse("api_availability", req, AvailabilityRejection(req), availDB)
        /\ UNCHANGED <<workerVars, appVars, panelVars>>

ApiAvailability ==
    \E req \in AvailabilityRequests :
        /\ BOOTED
        /\ AvailabilityRejection(req) = 0
        /\ availDB' = upsert_availability(availDB, FirstTruthy(req.ids), req.available)
        /\ ApiResponse("api_availability", req, 200, availDB)
        /\ UNCHANGED <<workerVars, panelVars, bootLog, env, serving, BOOTED, BOOT_LOCK, rpc, ppc, plocal,
                       ASTATE, cycles, stamp, tornRead, cycleResult, medDB>>

\* upsert_availability raises: the except branch records OPT API ERROR
ApiAvailabilityFails ==
    \E req \in AvailabilityRequests :
        /\ BOOTED
        /\ AvailabilityRejection(req) = 0
        /\ ASTATE' = [ASTATE EXCEPT !.last_error = PyStr("OPT API ERROR"), !.updated_at = now_iso]
        /\ ApiResponse("api_availability", req, 500, availDB)
        /\ UNCHANGED <<workerVars, panelVars, bootLog, env, serving, BOOTED, BOOT_LOCK, rpc, ppc, plocal,
                       availDB, cycles, stamp, tornRead, cycleResult, medDB>>

\* POST /api/med_deals: the fields add_med_deal requires
MedDealRequests ==
    [tokens : TokenSources,
     reporter_id : {"", "55", "77"},
     fields : { [enemy_faction |-> "Them", item |-> "Xanax"],
                [enemy_faction |-> "Them", item |-> ""] }]

\* 401 from token_ok, 400 from the ValueError of add_med_deal
AddRejection(req) ==
    IF ~token_ok(req) THEN 401
    ELSE IF req.reporter_id = "" \/ req.fields.enemy_faction = "" \/ req.fields.item = "" THEN 400
    ELSE 0

\* INSERT INTO med_deals: the row gets the next id
add_med_deal(db, req) ==
    [seq |-> db.seq + 1,
     rows |-> Append(db.rows, [id |-> db.seq + 1, reporter_id |-> req.reporter_id,
                               enemy_faction |-> req.fields.enemy_faction,
                               item |-> req.fields.item])]

ApiMedDealsAddRejected ==
    \E req \in MedDealRequests :
        /\ BOOTED
        /\ AddRejection(req) # 0
        /\ ApiResponse("api_med_deals_add", req, AddRejection(req), medDB)
        /\ UNCHANGED <<workerVars, appVars, panelVars>>

ApiMedDealsAdd ==
    \E req \in MedDealRequests :
        /\ BOOTED
        /\ AddRejection(req) = 0
        /\ medDB.seq < MaxDeals
        /\ medDB' = add_med_deal(medDB, req)
        /\ ASTATE' = [ASTATE EXCEPT !.med_deals = list_med_deals(medDB', MED_DEALS_LIMIT),
                                    !.updated_at = now_iso]
        /\ ApiResponse("api_med_deals_add", req, 200, medDB)
        /\ UNCHANGED <<workerVars, panelVars, bootLog, env, serving, BOOTED, BOOT_LOCK, rpc, ppc, plocal,
                       availDB, cycles, stamp, tornRead, cycleResult>>

\* DELETE /api/med_deals/<deal_id>: the requester id comes from
\* X-Requester-Id, ?requester_id= or the JSON body, in that order
DeleteRequests ==
    [tokens : TokenSources,
     deal_id : 1..MaxDeals,
     requester : { <<"", "", "">>, <<"55", "", "">>, <<"99", "", "">>, <<"", "", "77">> }]

\* the row of the table with the given id
HasDeal(db, deal_id) == \E i \in 1..Len(db.rows) : db.rows[i].id = deal_id

DealOf(db, deal_id) == db.rows[CHOOSE i \in 1..Len(db.rows) : db.rows[i].id = deal_id]

\* a variant that lets every requester delete
delete_allowed_any(db, deal_id, requester_id) == TRUE

\* requester_id == reporter_id or requester_id in MED_DEALS_ADMIN_IDS
delete_allowed(db, deal_id, requester_id) ==
    \/ requester_id = DealOf(db, deal_id).reporter_id
    \/ requester_id \in env.admins

\* 401 from token_ok; 400, 404 and 403 from delete_med_deal
DeleteRejection(req) ==
    LET requester_id == FirstTruthy(req.requester)
    IN IF ~token_ok(req) THEN 401
       ELSE IF requester_id = "" THEN 400
       ELSE IF ~HasDeal(medDB, req.deal_id) THEN 404
       ELSE IF ~delete_allowed(medDB, req.deal_id, requester_id) THEN 403
       ELSE 0

\* DELETE FROM med_deals WHERE id = ?
delete_med_deal(db, deal_id) ==
    [db EXCEPT !.rows = SelectSeq(db.rows, LAMBDA d : d.id # deal_id)]

ApiMedDealsDeleteRejected ==
    \E req \in DeleteRequests :
        /\ BOOTED
        /\ DeleteRejection(req) # 0
        /\ ApiResponse("api_med_deals_delete", req, DeleteRejection(req), medDB)
        /\ UNCHANGED <<workerVars, appVars, panelVars>>

ApiMedDealsDelete ==
    \E req \in DeleteRequests :
        /\ BOOTED
        /\ DeleteRejection(req) = 0
        /\ medDB' = delete_med_deal(medDB, req.deal_id)
        /\ ASTATE' = [ASTATE EXCEPT !.med_deals = list_med_deals(medDB', MED_DEALS_LIMIT),
                                    !.updated_at = now_iso]
        /\ ApiResponse("api_med_deals_delete", req, 200, medDB)
        /\ UNCHANGED <<workerVars, panelVars, bootLog, env, serving, BOOTED, BOOT_LOCK, rpc, ppc, plocal,
                       availDB, cycles, stamp, tornRead, cycleResult>>

\* the process after boot_once returned from a boot that succeeded
AppBooted(e) ==
    /\ env = e
    /\ serving = TRUE
    /\ BOOTED = TRUE
    /\ BOOT_LOCK = NoThread
    /\ rpc = [r \in Requests |-> "idle"]
    /\ ppc = [p \in Pollers |-> IF p = "boot" THEN "begin" ELSE "off"]
    /\ plocal = [p \in Pollers |-> NoLocals]
    /\ ASTATE = InitialState
    /\ availDB = e.stored
    /\ cycles = 0
    /\ stamp = [core |-> 0, war |-> 0, enemy |-> 0]
    /\ tornRead = FALSE
    /\ cycleResult = NoResult
    /\ medDB = NoDeals
    /\ bootLog = [attempts |-> 1, raised |-> FALSE]

ApiInit ==
    /\ call = NoCall
    /\ WorkerIdle
    /\ PanelIdle
    /\ \E e \in ApiEnvironments : AppBooted(e)

ApiNext ==
    \/ ApiAvailabilityRejected
    \/ ApiAvailability
    \/ ApiAvailabilityFails
    \/ ApiMedDealsAddRejected
    \/ ApiMedDealsAdd
    \/ ApiMedDealsDeleteRejected
    \/ ApiMedDealsDelete

SpecApi == ApiInit /\ [][ApiNext]_vars

\* ------------------------------------------------------------------------
\* Claims on the web process
\* ------------------------------------------------------------------------
\* C1: a reader of the shared snapshot never sees a half-updated snapshot:
\* the fields of one /state response all come from the same poll cycle.
C1_ReaderSeesOneCycle == ~tornRead

\* C2: when a fetch of a poll cycle fails, the cycle ends with last_error
\* recorded and with rows, counts, available_count, faction, chain, war and
\* enemy as they were before the cycle.
C2_FailedCycleKeepsSnapshot ==
    (cycleResult.ended /\ cycleResult.fetch_failed)
        => (cycleResult.error_recorded /\ cycleResult.unchanged)

InCycle(p) == ppc[p] \in {"core", "war", "enemy"}

\* C12: after a completed poll cycle last_error is None if and only if the
\* cycle ran without any error.
C12_LastErrorIffCycleFailed ==
    cycleResult.ended => (cycleResult.error_recorded <=> cycleResult.fetch_failed)

\* C15: a war fetch that times out makes the cycle a failure: the cycle
\* records an error and publishes nothing new.
C15_TimeoutFailsCycle ==
    [][\A p \in Pollers :
          PollWarFetchFails(p)
              => (ASTATE'.last_error # PyNone /\ Data(ASTATE') = plocal[p].pre)]_vars

\* C17: only the poll threads write the shared state: no request handler
\* changes a field of STATE, whether it succeeds or fails.
C17_OnlyPollerWrites ==
    [][(\E r \in Requests : GetState(r) \/ PostAvailability(r) \/ PostAvailabilityFails(r))
          => ASTATE' = ASTATE]_vars

C20_AvailabilityReadOnce ==
    [][\A p \in Pollers :
          /\ (ppc[p] = "begin" /\ ppc'[p] = "core") => plocal'[p].avail_map = availDB
          /\ (InCycle(p) /\ ppc'[p] # "sleep") => plocal'[p].avail_map = plocal[p].avail_map
          /\ (ppc[p] = "core" /\ ppc'[p] = "war")
                => \A i \in 1..Len(ASTATE'.rows) :
                      ASTATE'.rows[i].available
                          <=> <<ASTATE'.rows[i].id, TRUE>> \in plocal[p].avail_map]_vars

\* a flag stored through the API shows in the rows of a later cycle, and a
\* flag stored during a cycle does not show in the rows of that cycle
C20_Witness ==
    /\ \E i \in 1..Len(ASTATE.rows) : ASTATE.rows[i].id = "55" /\ ASTATE.rows[i].available
    /\ <<"77", TRUE>> \in availDB
    /\ \E i \in 1..Len(ASTATE.rows) : ASTATE.rows[i].id = "77" /\ ~ASTATE.rows[i].available

\* C4: no two poll cycles overlap: at most one poll thread is ever running
\* and a cycle starts only after the previous one has finished.
C4_NoCycleOverlap ==
    /\ Cardinality({ p \in Pollers : ppc[p] # "off" }) <= 1
    /\ Cardinality({ p \in Pollers : InCycle(p) }) <= 1

\* C7: in every published snapshot a member outside the eligible-sitter
\* allow-list has its available flag false.
C7_OutsiderNeverAvailable ==
    \A i \in 1..Len(ASTATE.rows) :
        ASTATE.rows[i].id \notin env.sitters => ~ASTATE.rows[i].available

\* ------------------------------------------------------------------------
\* Claims on the worker
\* ------------------------------------------------------------------------
\* C3: no error terminates the poll loop: after every cycle, failed or not,
\* the poller sleeps and starts another cycle.
C3_LoopNeverStops == wpc # "stopped"

Dispatched(e) == e.outcome \in {"sent", "send_failed"}

\* C5: of two predicate-true evaluations closer together than the cooldown
\* only the first dispatches, so two dispatches of the alert are never closer
\* together than the cooldown.
C5_CooldownGating ==
    (Dispatched(lastEval) /\ lastEval.prevFired # NoTime)
        => lastEval.at - lastEval.prevFired >= PING_COOLDOWN_SECONDS

\* C6: the alert fires exactly when the number of online or idle members is
\* at least the configured minimum and the cooldown allows it.
C6_ActivityThresholdFires ==
    (lastEval.outcome \notin {"none", "no_channel"} /\ ~DISABLE_DISCORD_POSTS /\ ALERT_IDS_SET)
        => (Dispatched(lastEval)
              <=> /\ lastEval.online_idle >= PING_THRESHOLD
                  /\ \/ lastEval.prevFired = NoTime
                     \/ lastEval.at - lastEval.prevFired >= PING_COOLDOWN_SECONDS)

\* C11: when the send of an alert fails, the cooldown timestamp of that
\* firing stays set, so the alert is not sent again before the cooldown ends.
C11_FailedSendKeepsTimestamp ==
    lastEval.outcome = "send_failed" => last_pinged_at_utc = lastEval.at

\* C19: the cooldown timestamp is written only by the alert step, after the
\* snapshot of the same iteration was stored and pushed, and it is set to the
\* time of that iteration; no step clears it.
C19_TimestampOnlyByAlertStep ==
    [][last_pinged_at_utc' # last_pinged_at_utc
          => /\ wpc = "pushed" /\ wpc' = "sleep"
             /\ WSTATE.updated_at = wnow
             /\ last_pinged_at_utc' = wnow]_vars

\* the timestamp was written and a later iteration has published since
C19_Witness ==
    /\ last_pinged_at_utc # NoTime
    /\ WSTATE.updated_at > last_pinged_at_utc
    /\ wpc = "sleep"

\* C30: the boot step of boot_once runs at most once in a process, also
\* when the first requests arrive together; after it ran, with or without
\* an exception, BOOTED is true; when it raised, BOOT ERROR is recorded in
\* last_error by that step and the poll thread of boot_once is never
\* started.
C30_BootAtMostOnce ==
    /\ [](/\ bootLog.attempts <= 1
          /\ bootLog.attempts = 1 => BOOTED
          /\ bootLog.raised => ppc["boot"] = "off")
    /\ [][bootLog'.attempts # bootLog.attempts
             => /\ bootLog.attempts = 0 /\ ~BOOTED /\ BOOTED'
                /\ bootLog'.raised => (ASTATE'.last_error = PyStr("BOOT ERROR") /\ ppc' = ppc)
                /\ ~bootLog'.raised => ppc'["boot"] = "begin"]_vars

\* two first requests met at the lock; the boot step of one raised and the
\* other found BOOTED set
C30_Witness ==
    /\ bootLog = [attempts |-> 1, raised |-> TRUE]
    /\ BOOTED /\ BOOT_LOCK = NoThread
    /\ \E r \in Requests : rpc[r] = "lock_wait"
    /\ ppc["boot"] = "off"

\* ------------------------------------------------------------------------
\* Claims on the handlers of the stored tables
\* ------------------------------------------------------------------------
\* the first non-empty entry of xs is x
FirstNonEmptyIs(xs, x) ==
    \E i \in 1..Len(xs) : xs[i] = x /\ xs[i] # "" /\ \A j \in 1..(i - 1) : xs[j] = ""

AllEmpty(xs) == \A i \in 1..Len(xs) : xs[i] = ""

\* the request carries the configured token, or no token is configured
TokenAccepted(req) == env.token = "" \/ FirstNonEmptyIs(req.tokens, env.token)

\* C28: the availability API stores a flag only for a request whose token
\* is accepted, whose id is non-empty and, when CHAIN_SITTER_IDS is set,
\* whose id is on that list; a request answered 401, 400 or 403 leaves the
\* table unchanged; the token is checked first, then the id, then the list.
C28_AvailabilityChecks ==
    call.fn = "api_availability" =>
        LET req == call.req
            listed(id) == env.sitters = {} \/ id \in env.sitters
        IN /\ call.status \in {401, 400, 403} => availDB = call.pre
           /\ availDB # call.pre
                 => /\ TokenAccepted(req)
                    /\ \E id \in {"55", "77"} :
                          /\ FirstNonEmptyIs(req.ids, id) /\ listed(id)
                          /\ <<id, req.available>> \in availDB
           /\ ~TokenAccepted(req) => call.status = 401
           /\ (TokenAccepted(req) /\ AllEmpty(req.ids)) => call.status = 400
           /\ (TokenAccepted(req) /\ \E id \in {"55", "77"} :
                                        FirstNonEmptyIs(req.ids, id) /\ ~listed(id))
                 => call.status = 403

\* a chain sitter opts in with the token in the X-Token header
C28_Witness ==
    /\ call.fn = "api_availability" /\ call.status = 200
    /\ env.token = API_TOKEN /\ env.sitters = {"55"}
    /\ call.pre = {} /\ availDB = { <<"55", TRUE>> }

\* C29: a delete request removes a deal only when the requester id is the
\* deal's reporter id or one of MED_DEALS_ADMIN_IDS, and then removes that
\* deal alone; a request of anybody else, with an empty requester id or for
\* a deal that does not exist leaves the stored deals unchanged.
C29_DeleteOnlyByOwnerOrAdmin ==
    call.fn = "api_med_deals_delete" =>
        LET pre == call.pre.rows
            mine(i) == pre[i].id = call.req.deal_id
            allowed(i) == \/ FirstNonEmptyIs(call.req.requester, pre[i].reporter_id)
                          \/ \E a \in env.admins : FirstNonEmptyIs(call.req.requester, a)
        IN /\ medDB.rows # pre
                 => \E i \in 1..Len(pre) :
                       /\ mine(i) /\ allowed(i)
                       /\ medDB.rows = SubSeq(pre, 1, i - 1) \o SubSeq(pre, i + 1, Len(pre))
           /\ (\/ AllEmpty(call.req.requester)
               \/ \A i \in 1..Len(pre) : ~mine(i)
               \/ \E i \in 1..Len(pre) : mine(i) /\ ~allowed(i))
                 => medDB = call.pre

\* the admin 99 deletes the first of two deals, both reported by 55
C29_Witness ==
    /\ call.fn = "api_med_deals_delete" /\ call.status = 200
    /\ call.req.requester = <<"99", "", "">> /\ call.req.deal_id = 1
    /\ Len(call.pre.rows) = 2 /\ call.pre.rows[1].reporter_id = "55"
    /\ Len(medDB.rows) = 1 /\ medDB.rows[1].id = 2

\* ------------------------------------------------------------------------
\* Claims on the panel process
\* ------------------------------------------------------------------------
\* C27: a push_state request that is not answered ok (403, 400, or a value
\* that fails normalisation) leaves the panel's STATE as it was before the
\* request.
C27_RejectedPushKeepsState ==
    (call.fn = "push_state" /\ call.status # 200) => PSTATE = call.pre

\* ------------------------------------------------------------------------
\* Claims on the pure helpers
\* ------------------------------------------------------------------------
\* C9: for every integer minutes the bucket is online when minutes <= 20,
\* idle when 20 < minutes <= 30 and offline otherwise (20 online, 21 idle,
\* 30 idle, 31 offline).
C9_Bucketing ==
    call.fn = "classify_status" =>
        /\ (call.minutes <= 20 => call.ret = "online")
        /\ (call.minutes > 20 /\ call.minutes <= 30 => call.ret = "idle")
        /\ (call.minutes > 30 => call.ret = "offline")

C9_Witness == call.fn = "classify_status" /\ call.minutes = 20 /\ call.ret = "online"

\* minutes in one unit, Units[u]; a second is a sixtieth of a minute
UnitMinutes == <<0, 1, 60, 1440, 10080, 43200, 525600>>

ExpectedMinutes(n, u) == IF u = 1 THEN n \div 60 ELSE n * UnitMinutes[u]

\* C10: every well-formed "<N> <unit> ago" parses to N times the unit's
\* minutes, "just now" and "now" parse to 0, every other text parses to the
\* unknown sentinel.
C10_RelativeTimeParse ==
    call.fn = "parse_last_action_minutes" =>
        /\ \A n \in 0..MaxN, u \in 1..Len(Units) :
              call.relative = RelativeText(n, u) => call.ret = ExpectedMinutes(n, u)
        /\ (call.relative \in {S_just_now, S_now} => call.ret = 0)
        /\ (call.relative \in {<<>>, S_unknown} => call.ret = UNKNOWN_MINUTES)

\* the text of a row of a split_sections call, by the row's id
TextOfRow(row) == call.texts[IF row.id = "1" THEN 1 ELSE 2]

\* C21: in every section of the panel a member whose last-action text is
\* unrecognised stands behind every member whose text is recognised: no
\* unknown row precedes a row last seen minutes, hours or days ago.
C21_UnknownSortsLast ==
    call.fn = "split_sections" =>
        \A sec \in {"online", "idle", "offline"} :
            \A i, j \in 1..Len(call.ret[sec]) :
                (TextOfRow(call.ret[sec][i]) \in UnknownTexts
                    /\ TextOfRow(call.ret[sec][j]) \in RecognisedTexts) => j < i

\* the war entries a payload holds under rankedwars, list or map
WarEntries(raw) ==
    LET rw == Get(raw, "rankedwars")
    IN IF IsList(rw) THEN rw.items ELSE IF IsDict(rw) THEN Values(rw) ELSE <<>>

\* C22: of the war entries of a container the normalised war is one without
\* an end time if there is one, and else the one with the latest start
\* time: never an ended war beside an unended one, never the older of two
\* ended wars.
C22_ActiveWarSelection ==
    (call.fn = "_normalize_ranked_war" /\ call.raw \in WarContainers) =>
        LET es == WarEntries(call.raw)
        IN /\ (\E i \in 1..Len(es) : ~HasKey(es[i], "end"))
                 => (IsNone(Get(call.ret, "end")) /\ ~IsNone(Get(call.ret, "start")))
           /\ (\A i \in 1..Len(es) : HasKey(es[i], "end"))
                 => \E k \in 1..Len(es) :
                       /\ Get(call.ret, "start") = Get(es[k], "start")
                       /\ \A i \in 1..Len(es) : Get(es[i], "start").v <= Get(es[k], "start").v

\* the score of the i-th faction entry, None when the collection has fewer
\* than two entries or the entry carries no score
EntryScore(scores, i) ==
    IF Len(scores) >= 2 /\ scores[i] # 0 THEN PyInt(scores[i]) ELSE PyNone

\* C23: a direct score field of the war entry is the result when it is
\* present, and only else the score of the first (ours) or second (enemy)
\* faction entry; the same entries in the same order give the same pair as
\* a map and as a list.
C23_ScoreExtraction ==
    call.fn = "_extract_score" =>
        /\ call.ret[1] = IF call.our # NoScore THEN PyInt(call.our)
                         ELSE EntryScore(call.scores, 1)
        /\ call.ret[2] = IF call.enemy # NoScore THEN PyInt(call.enemy)
                         ELSE EntryScore(call.scores, 2)
        /\ _extract_score(ScoreObj(call.scores, call.our, call.enemy, ~call.asMap)) = call.ret

\* the direct field gives our score, the second list entry the enemy's
C23_Witness ==
    /\ call.fn = "_extract_score" /\ ~call.asMap
    /\ call.scores = <<3, 5>> /\ call.our = 7 /\ call.enemy = NoScore
    /\ call.ret = <<PyInt(7), PyInt(5)>>

\* a value that resolves to an integer: an int, or the numeral of one
IsIntLike(x) ==
    \/ x.kind = "int"
    \/ x.kind = "str" /\ \E n \in 0..99 : x.v = ToString(n)

\* the member entries of a payload with their map key (None in an array)
MemberEntries(members) ==
    IF IsDict(members)
    THEN SelectSeq([i \in 1..Len(members.items) |->
                      <<PyStr(members.items[i][1]), members.items[i][2]>>],
                   LAMBDA e : IsDict(e[2]))
    ELSE IF IsList(members)
    THEN SelectSeq([i \in 1..Len(members.items) |-> <<PyNone, members.items[i]>>],
                   LAMBDA e : IsDict(e[2]))
    ELSE <<>>

\* id, torn_id, user_id and the map key of an entry, in that order
IdCandidates(e) == <<Get(e[2], "id"), Get(e[2], "torn_id"), Get(e[2], "user_id"), e[1]>>

\* C24: the id of every row is the first of id, torn_id, user_id and the
\* map key of its member entry that resolves to an integer; a member with
\* torn_id or user_id only gets that id, a non-integer id is skipped.
C24_IdResolution ==
    (call.fn = "normalize_faction_rows" /\ ~call.raised /\ call.v2_payload # PyNone) =>
        LET es == MemberEntries(Or(Get(call.v2_payload, "members"), EmptyDict))
        IN /\ Len(call.ret.rows) = Len(es)
           /\ \A i \in 1..Len(es) :
                 LET c == IdCandidates(es[i])
                 IN \A k \in 1..Len(c) :
                       (IsIntLike(c[k]) /\ \A j \in 1..(k - 1) : ~IsIntLike(c[j]))
                           => call.ret.rows[i].id = StrOf(c[k])

\* the number of rows that satisfy Test
CountRows(rows, Test(_)) == Cardinality({ i \in 1..Len(rows) : Test(rows[i]) })

\* C26: the counts of normalize_faction_rows partition its rows: the four
\* counts add up to the number of rows, a hospitalised member counts under
\* hospital only, every other member under the bucket of its minutes only,
\* and available_count is the number of rows flagged available.
C26_CountsPartitionRows ==
    (call.fn = "normalize_faction_rows" /\ ~call.raised) =>
        LET rows == call.ret.rows
            counts == call.ret.counts
        IN /\ counts.online + counts.idle + counts.offline + counts.hospital = Len(rows)
           /\ counts.hospital = CountRows(rows, LAMBDA r : r.hospital)
           /\ counts.online = CountRows(rows, LAMBDA r : ~r.hospital /\ r.minutes <= 20)
           /\ counts.idle = CountRows(rows, LAMBDA r : ~r.hospital /\ r.minutes > 20 /\ r.minutes <= 30)
           /\ counts.offline = CountRows(rows, LAMBDA r : ~r.hospital /\ r.minutes > 30)
           /\ call.ret.available_count = CountRows(rows, LAMBDA r : r.available)

\* Ann, seen 25 minutes ago, is in hospital and opted in; Bo is offline
C26_Witness ==
    /\ call.fn = "normalize_faction_rows" /\ ~call.raised
    /\ Len(call.ret.rows) = 2
    /\ call.ret.rows[1].hospital /\ call.ret.rows[1].status = "idle"
    /\ call.ret.counts = [online |-> 0, idle |-> 0, offline |-> 1, hospital |-> 1]
    /\ call.ret.available_count = 1

\* C13: the rows normalize_faction_rows returns hold no two rows with the
\* same id, for every members payload.
C13_NoDuplicateIds ==
    (call.fn = "normalize_faction_rows" /\ ~call.raised)
        => \A i, j \in 1..Len(call.ret.rows) :
              call.ret.rows[i].id = call.ret.rows[j].id => i = j

\* C14: normalize_faction_rows never leaves with an exception, whatever the
\* shape of the payload.
C14_NormaliseNeverRaises ==
    call.fn = "normalize_faction_rows" => ~call.raised

\* C16: normalising a normalised war again returns it unchanged in every
\* field, the chain field included.
C16_WarNormaliseIdempotent ==
    call.fn = "_normalize_ranked_war"
        => _normalize_ranked_war(call.ret, call.our) = call.ret

\* C25: opponent and opponent_id of a normalised war name one faction, the
\* one that is not ours: for a factions map of our faction and one other,
\* in either order, opponent_id is the other faction's key and opponent is
\* the name stored under that key.
C25_OpponentNameMatchesId ==
    call.fn = "_normalize_ranked_war" =>
        LET blob == _find_active_war_blob(call.raw)
            factions == Get(blob, "factions")
        IN (IsDict(factions) /\ Len(factions.items) = 2 /\ HasKey(factions, call.our))
           => \E k \in { Keys(factions)[i] : i \in 1..2 } \ {call.our} :
                 /\ Get(call.ret, "opponent_id") = PyStr(k)
                 /\ Get(call.ret, "opponent") = Get(Item(factions, k), "name")

\* C8: a two-entry factions map keyed by our id and one other id gives the
\* other faction's name as the opponent, whichever key comes first.
C8_OpponentIsOtherFaction ==
    call.fn = "_normalize_ranked_war" =>
        LET blob == _find_active_war_blob(call.raw)
            factions == Get(blob, "factions")
        IN (IsDict(factions) /\ Len(factions.items) = 2
               /\ HasKey(factions, call.our) /\ HasKey(factions, OTHER_ID))
           => Get(call.ret, "opponent") = Get(Item(factions, OTHER_ID), "name")

====
